---- MODULE Spec2Model ----
(***************************************************************************)
(* Layout reconstruction pipeline of src/config_manager.py: positioned     *)
(* tokens -> lines -> row roles -> column boundaries -> grid -> records    *)
(* -> output artifact.                                                     *)
(*                                                                         *)
(* Strings are sequences of one-character strings, so that strip, join,    *)
(* the regular expressions and the "name: value" formatting are computed   *)
(* character by character.  Token coordinates are whole units; every       *)
(* derived coordinate (mean, midpoint, evenly spaced start) is kept        *)
(* exactly, as an integer number of 1/Scale units.                         *)
(***************************************************************************)
EXTENDS Integers, Sequences, FiniteSets, Bags, TLC

VARIABLES
    pc,                     \* position inside process_pdf_file
    pdf_filename,           \* os.path.basename(pdf_path)
    words,                  \* all_words_from_pdf, in extraction order
    extract_fails,          \* whether pdfplumber raises while extracting
    reconstructed_lines,    \* List[List[word]]
    data_row_indices,       \* List[int]
    header_row_idx,         \* int
    num_header_cols,        \* int
    column_boundaries,      \* List[(start, end)], in 1/Scale units
    grid_data,              \* List[List[str]]
    top_level_info,         \* {part_name, serial_number}
    final_data_for_excel,   \* List[excel_row]
    excel_filename_base,    \* f"{s_part_name}_{s_serial_num}"
    excel_path,             \* the artifact name chosen so far
    counter,                \* the suffix the collision loop tries next
    write_fails,            \* whether DataFrame.to_excel raises
    output_dir,             \* the artifact names present in OUTPUT_DIR
    returned,               \* "None" while running, then "True", "False" or "Raised"
    pdf_files,              \* main: the documents of REPORTS_DIR, in listing order
    file_no,                \* main: how many documents the for loop has taken
    successful_pdfs,        \* main: List[str]
    failed_pdfs,            \* main: Dict[str, str], as a set of <<name, reason>>
    workers                 \* the frames of concurrent calls of process_pdf_file

vars == <<pc, pdf_filename, words, extract_fails, reconstructed_lines,
          data_row_indices, header_row_idx, num_header_cols, column_boundaries,
          grid_data, top_level_info, final_data_for_excel, excel_filename_base,
          excel_path, counter, write_fails, output_dir, returned,
          pdf_files, file_no, successful_pdfs, failed_pdfs, workers>>

\* the state outside the frame of the sequential call: main's, which
\* process_pdf_file never touches, and the frames of concurrent calls
main_vars == <<pdf_files, file_no, successful_pdfs, failed_pdfs, workers>>

(***************************************************************************)
(* Program constants                                                       *)
(***************************************************************************)
LINE_TOLERANCE == 2
MIN_X_COORD == 5
MAX_X_COORD == 700
DATA_ROW_MIN_COLUMNS == 2
HEADER_ROW_CANDIDATE_LINES == 15
HEADER_MIN_WORDS == 3
HEADER_MAX_WORDS == 15
\* the two ratio thresholds are 0.5, kept as a number of halves:
\* count / total >= 0.5 is 2 * count >= halves * total
DATA_ROW_NUMERIC_THRESHOLD_HALVES == 1
HEADER_NON_NUMERIC_RATIO_HALVES == 1

\* A CJK character is one character of a string, written by its pinyin in
\* braces: "{zhou}" is U+8F74, the axis column's name.
KAN_HEADERS_TEMPLATE ==
    << <<"{zhou}">>,
       <<"{biao}", "{cheng}", "{zhi}">>,
       <<"{zheng}", "{gong}", "{cha}">>,
       <<"{fu}", "{gong}", "{cha}">>,
       <<"{ce}", "{ding}">>,
       <<"{zui}", "{da}", "{zhi}">>,
       <<"{zui}", "{xiao}", "{zhi}">>,
       <<"{pian}", "{cha}">>,
       <<"{chao}", "{cha}">> >>

\* EXCEL_OUTPUT_COLUMNS, line 24: the nine columns of a record, by position
\* (excel_row[k] of the code is excel_row[k + 1] here)
EXCEL_OUTPUT_COLUMNS ==
    << "sequence", "feature_name", "actual", "nominal", "upper_tol",
       "lower_tol", "deviation", "out_of_tolerance", "remarks" >>

(***************************************************************************)
(* Bounds of the model                                                     *)
(***************************************************************************)
MaxWords == 3        \* tokens of a document in SpecLines
MaxTop == 5          \* largest vertical position in SpecLines
MaxLinesB == 2       \* lines given to define_adaptive_column_boundaries
MaxColsB == 3        \* tokens of such a line, and the expected column count
MaxGridRows == 4     \* rows of a grid given to structure_data_for_excel
MaxGridCols == 10    \* cells of a row of such a grid
MaxDocLines == 3     \* text lines of a document in Spec

(***************************************************************************)
(* Generic helpers                                                         *)
(***************************************************************************)
Range(s) == { s[i] : i \in 1..Len(s) }

Min2(a, b) == IF a <= b THEN a ELSE b
Max2(a, b) == IF a >= b THEN a ELSE b
Abs(a) == IF a < 0 THEN -a ELSE a

RECURSIVE SeqSum(_)
SeqSum(s) == IF s = <<>> THEN 0 ELSE Head(s) + SeqSum(Tail(s))

\* the multiset of the elements of a sequence
RECURSIVE BagOfSeq(_)
BagOfSeq(s) == IF s = <<>> THEN EmptyBag ELSE SetToBag({Head(s)}) (+) BagOfSeq(Tail(s))

\* concatenation of a sequence of sequences
RECURSIVE Flatten(_)
Flatten(ss) == IF ss = <<>> THEN <<>> ELSE Head(ss) \o Flatten(Tail(ss))

\* all sequences over S of length 0..n
SeqUpTo(S, n) == UNION { [1..k -> S] : k \in 0..n }

(***************************************************************************)
(* list.sort(key=...): Python's sort is stable, so it is modelled as an    *)
(* insertion sort that places an element after every element whose key is  *)
(* not greater.                                                            *)
(***************************************************************************)
\* key (top, x0) of line 107, compared lexicographically
KeyTopX0LE(a, b) == a.top < b.top \/ (a.top = b.top /\ a.x0 <= b.x0)
\* key x0 of lines 117 and 121
KeyX0LE(a, b) == a.x0 <= b.x0

RECURSIVE InsertByTopX0(_, _)
InsertByTopX0(sorted, w) ==
    IF sorted = <<>> THEN <<w>>
    ELSE IF KeyTopX0LE(Head(sorted), w)
         THEN <<Head(sorted)>> \o InsertByTopX0(Tail(sorted), w)
         ELSE <<w>> \o sorted

\* a sort that was left out: the words stay in extraction order
KeepExtractionOrder(s) == s

RECURSIVE SortByTopX0(_)
SortByTopX0(s) ==
    IF s = <<>> THEN <<>>
    ELSE InsertByTopX0(SortByTopX0(SubSeq(s, 1, Len(s) - 1)), s[Len(s)])

RECURSIVE InsertByX0(_, _)
InsertByX0(sorted, w) ==
    IF sorted = <<>> THEN <<w>>
    ELSE IF KeyX0LE(Head(sorted), w)
         THEN <<Head(sorted)>> \o InsertByX0(Tail(sorted), w)
         ELSE <<w>> \o sorted

RECURSIVE SortByX0(_)
SortByX0(s) ==
    IF s = <<>> THEN <<>>
    ELSE InsertByX0(SortByX0(SubSeq(s, 1, Len(s) - 1)), s[Len(s)])

(***************************************************************************)
(* extract_words_and_reconstruct_lines, lines 104-123                      *)
(***************************************************************************)
\* line 114: does the word join the current line?
\* banding chained on the word before instead of the line's first word
JoinsPreviousWord(current_line, current_word) ==
    Abs(current_word.top - current_line[Len(current_line)].top) <= LINE_TOLERANCE

JoinsCurrentLine(current_line, current_word) ==
    Abs(current_word.top - current_line[1].top) <= LINE_TOLERANCE

\* the loop without lines 120-122: the line still open at the end is lost
RECURSIVE GroupWordsNoFlush(_, _, _)
GroupWordsNoFlush(rest, current_line, done) ==
    IF rest = <<>> THEN done
    ELSE IF JoinsCurrentLine(current_line, Head(rest))
         THEN GroupWordsNoFlush(Tail(rest), Append(current_line, Head(rest)), done)
         ELSE GroupWordsNoFlush(Tail(rest), <<Head(rest)>>,
                                Append(done, SortByX0(current_line)))

\* lines 111-119: the loop over the sorted words; done are the closed lines
RECURSIVE GroupWords(_, _, _)
GroupWords(rest, current_line, done) ==
    IF rest = <<>>
    THEN \* lines 120-122
         IF current_line # <<>> THEN Append(done, SortByX0(current_line)) ELSE done
    ELSE IF JoinsCurrentLine(current_line, Head(rest))
         THEN GroupWords(Tail(rest), Append(current_line, Head(rest)), done)
         ELSE GroupWords(Tail(rest), <<Head(rest)>>,
                         Append(done, SortByX0(current_line)))

\* lines 104-123, for the words the extractor supplied
ReconstructLines(all_words) ==
    IF all_words = <<>> THEN <<>>
    ELSE LET sorted == SortByTopX0(all_words)
         IN GroupWords(Tail(sorted), <<Head(sorted)>>, <<>>)

(***************************************************************************)
(* Strings: str.strip, str.upper, str.join, concatenation                  *)
(***************************************************************************)
Whitespace == {" ", "\t", "\n"}
Digits == {"0", "1", "2", "3", "4", "5", "6", "7", "8", "9"}
LowerLetters == <<"a","b","c","d","e","f","g","h","i","j","k","l","m",
                  "n","o","p","q","r","s","t","u","v","w","x","y","z">>
UpperLetters == <<"A","B","C","D","E","F","G","H","I","J","K","L","M",
                  "N","O","P","Q","R","S","T","U","V","W","X","Y","Z">>

RECURSIVE LStrip(_)
LStrip(s) == IF s # <<>> /\ Head(s) \in Whitespace THEN LStrip(Tail(s)) ELSE s

RECURSIVE RStrip(_)
RStrip(s) ==
    IF s # <<>> /\ s[Len(s)] \in Whitespace THEN RStrip(SubSeq(s, 1, Len(s) - 1)) ELSE s

\* str.strip()
Strip(s) == RStrip(LStrip(s))

UpperChar(c) ==
    IF \E i \in 1..Len(LowerLetters) : LowerLetters[i] = c
    THEN UpperLetters[CHOOSE i \in 1..Len(LowerLetters) : LowerLetters[i] = c]
    ELSE c

LowerChar(c) ==
    IF \E i \in 1..Len(UpperLetters) : UpperLetters[i] = c
    THEN LowerLetters[CHOOSE i \in 1..Len(UpperLetters) : UpperLetters[i] = c]
    ELSE c

\* str.upper(), str.lower()
Upper(s) == [i \in 1..Len(s) |-> UpperChar(s[i])]
Lower(s) == [i \in 1..Len(s) |-> LowerChar(s[i])]

\* " ".join(parts)
RECURSIVE JoinSpace(_)
JoinSpace(parts) ==
    IF parts = <<>> THEN <<>>
    ELSE IF Len(parts) = 1 THEN parts[1]
    ELSE parts[1] \o <<" ">> \o JoinSpace(Tail(parts))

\* "; ".join(parts)
RECURSIVE JoinSemicolon(_)
JoinSemicolon(parts) ==
    IF parts = <<>> THEN <<>>
    ELSE IF Len(parts) = 1 THEN parts[1]
    ELSE parts[1] \o <<";", " ">> \o JoinSemicolon(Tail(parts))

\* text.replace(',', '')
RECURSIVE RemoveCommas(_)
RemoveCommas(s) ==
    IF s = <<>> THEN <<>>
    ELSE IF Head(s) = "," THEN RemoveCommas(Tail(s))
    ELSE <<Head(s)>> \o RemoveCommas(Tail(s))

\* needle in haystack
Contains(haystack, needle) ==
    \E i \in 1..(Len(haystack) - Len(needle) + 1) :
        SubSeq(haystack, i, i + Len(needle) - 1) = needle

(***************************************************************************)
(* is_numeric, lines 77-86                                                 *)
(***************************************************************************)
\* digit (["_"] digit)*
IsDigitPart(s) ==
    /\ s # <<>>
    /\ s[1] \in Digits /\ s[Len(s)] \in Digits
    /\ \A i \in 1..Len(s) : s[i] \in Digits \cup {"_"}
    /\ \A i \in 1..(Len(s) - 1) : ~(s[i] = "_" /\ s[i + 1] = "_")

\* digitpart | digitpart "." [digitpart] | "." digitpart
IsPointFloat(s) ==
    \/ IsDigitPart(s)
    \/ \E k \in 1..Len(s) :
          /\ s[k] = "."
          /\ LET a == SubSeq(s, 1, k - 1)
                 b == SubSeq(s, k + 1, Len(s))
             IN /\ (a = <<>> \/ IsDigitPart(a))
                /\ (b = <<>> \/ IsDigitPart(b))
                /\ ~(a = <<>> /\ b = <<>>)

\* ("e" | "E") ["+" | "-"] digitpart
IsExponent(s) ==
    /\ Len(s) >= 2
    /\ s[1] \in {"e", "E"}
    /\ LET r == Tail(s)
       IN IF r[1] \in {"+", "-"} THEN IsDigitPart(Tail(r)) ELSE IsDigitPart(r)

\* float(s) does not raise ValueError
FloatParses(s) ==
    LET t == Strip(s)
        u == IF t # <<>> /\ t[1] \in {"+", "-"} THEN Tail(t) ELSE t
    IN \/ Lower(u) \in { <<"i","n","f">>, <<"n","a","n">>,
                         <<"i","n","f","i","n","i","t","y">> }
       \/ \E k \in 1..Len(u) :
             /\ IsPointFloat(SubSeq(u, 1, k))
             /\ (k = Len(u) \/ IsExponent(SubSeq(u, k + 1, Len(u))))

\* re.match(r"^-?(\d*\.\d+|\d+\.\d*)$", text)
MatchesDecimalRegex(s) ==
    LET t == IF s # <<>> /\ s[Len(s)] = "\n" THEN SubSeq(s, 1, Len(s) - 1) ELSE s
        u == IF t # <<>> /\ t[1] = "-" THEN Tail(t) ELSE t
    IN \E k \in 1..Len(u) :
          /\ u[k] = "."
          /\ \A i \in 1..Len(u) : i # k => u[i] \in Digits
          /\ Len(u) >= 2

is_numeric(text) ==
    LET t == Strip(text)
    IN IF t = <<>> THEN FALSE
       ELSE FloatParses(RemoveCommas(t)) \/ MatchesDecimalRegex(t)

(***************************************************************************)
(* identify_data_rows_and_header_ref, lines 128-187                        *)
(* Line i of the code (0-based) is reconstructed_lines[i + 1].             *)
(***************************************************************************)
AxisCodes == { <<"M">>, <<"X">>, <<"Y">>, <<"Z">>, <<"L">>, <<"A","X">>, <<"P","T">> }

\* a pattern that matches nothing
NeverSingleCapital(s) == FALSE

\* re.match(r"^[A-Z]$", text)
IsSingleCapital(s) ==
    LET t == IF s # <<>> /\ s[Len(s)] = "\n" THEN SubSeq(s, 1, Len(s) - 1) ELSE s
    IN Len(t) = 1 /\ t[1] \in Range(UpperLetters)

\* sum(1 for w in ws if is_numeric(w.text))
NumericCount(ws) == Cardinality({ j \in 1..Len(ws) : is_numeric(ws[j].text) })

\* lines 136-145: does the line go into data_row_indices?
IsDataRow(line_words) ==
    IF Len(line_words) < DATA_ROW_MIN_COLUMNS THEN FALSE
    ELSE LET first_word_text == Upper(Strip(line_words[1].text))
         IN IF first_word_text \in AxisCodes \/ IsSingleCapital(first_word_text)
            THEN TRUE
            ELSE LET numeric_word_count == NumericCount(Tail(line_words))
                 IN /\ Len(line_words) > 2
                    /\ numeric_word_count >= DATA_ROW_MIN_COLUMNS - 1
                    /\ 2 * numeric_word_count
                          >= DATA_ROW_NUMERIC_THRESHOLD_HALVES * (Len(line_words) - 1)

\* lines 135-145: the indices, ascending
RECURSIVE DataRowsFrom(_, _)
DataRowsFrom(lines, i) ==
    IF i >= Len(lines) THEN <<>>
    ELSE (IF IsDataRow(lines[i + 1]) THEN <<i>> ELSE <<>>) \o DataRowsFrom(lines, i + 1)

\* the loop of line 135 started at the second line
DataRowsAfterFirst(lines) == DataRowsFrom(lines, 1)

DataRowIndices(lines) == DataRowsFrom(lines, 0)

\* lines 151-158: is line_words scored at all?
IsHeaderCandidate(line_words) ==
    /\ HEADER_MIN_WORDS <= Len(line_words)
    /\ Len(line_words) <= HEADER_MAX_WORDS
    /\ 2 * (Len(line_words) - NumericCount(line_words))
          >= HEADER_NON_NUMERIC_RATIO_HALVES * Len(line_words)

\* the score without the bonus of lines 160-161
HeaderScoreNoBonus(line_words, i, data_rows) == Len(line_words) - NumericCount(line_words)

\* lines 156-161
HeaderScore(line_words, i, data_rows) ==
    (Len(line_words) - NumericCount(line_words))
    + (IF data_rows # <<>> /\ i = data_rows[1] - 1 THEN Len(line_words) ELSE 0)

\* lines 150-165: the loop, acc = [best |-> <<index>> or <<>> (None), max |-> score]
RECURSIVE HeaderScan(_, _, _, _)
HeaderScan(lines, data_rows, i, acc) ==
    IF i >= Len(lines) \/ i >= HEADER_ROW_CANDIDATE_LINES THEN acc
    ELSE LET lw == lines[i + 1]
             sc == HeaderScore(lw, i, data_rows)
         IN IF IsHeaderCandidate(lw) /\ sc > acc.max
            THEN HeaderScan(lines, data_rows, i + 1, [best |-> <<i>>, max |-> sc])
            ELSE HeaderScan(lines, data_rows, i + 1, acc)

BestHeaderCandidate(lines, data_rows) ==
    HeaderScan(lines, data_rows, 0, [best |-> <<>>, max |-> -1]).best

\* the fallback of lines 173-178 finding nothing
NoFallbackHeader(lines) == <<>>

\* lines 173-178: the first line within the window with >= HEADER_MIN_WORDS
\* words, as <<index>>, or <<>> when there is none
FallbackHeader(lines) ==
    LET ok == { i \in 0..(Min2(Len(lines), HEADER_ROW_CANDIDATE_LINES) - 1) :
                    Len(lines[i + 1]) >= HEADER_MIN_WORDS }
    IN IF ok = {} THEN <<>> ELSE << CHOOSE i \in ok : \A j \in ok : i <= j >>

\* lines 167-187: (header_row_idx, num_header_columns)
HeaderRef(lines, data_rows) ==
    LET best == BestHeaderCandidate(lines, data_rows)
    IN IF best # <<>> THEN [idx |-> best[1], cols |-> Len(lines[best[1] + 1])]
       ELSE IF lines # <<>>
            THEN LET fb == FallbackHeader(lines)
                 IN IF fb # <<>> THEN [idx |-> fb[1], cols |-> Len(lines[fb[1] + 1])]
                    ELSE [idx |-> 0, cols |-> Len(lines[1])]
            ELSE [idx |-> 0, cols |-> 0]

(***************************************************************************)
(* define_adaptive_column_boundaries, lines 189-235                        *)
(* A coordinate c of the code is the integer c * Scale here.  Scale is     *)
(* twice the least common multiple of 1..8, so the mean of up to 8 whole   *)
(* x0 values, an evenly spaced start for up to 8 columns and the midpoint  *)
(* of two such values are all exact.                                       *)
(***************************************************************************)
Scale == 2 * (8 * 3 * 5 * 7)
MinX == MIN_X_COORD * Scale
MaxX == MAX_X_COORD * Scale

RECURSIVE InsertNum(_, _)
InsertNum(sorted, x) ==
    IF sorted = <<>> THEN <<x>>
    ELSE IF Head(sorted) <= x THEN <<Head(sorted)>> \o InsertNum(Tail(sorted), x)
    ELSE <<x>> \o sorted

\* sorted(xs)
RECURSIVE SortNums(_)
SortNums(xs) ==
    IF xs = <<>> THEN <<>> ELSE InsertNum(SortNums(SubSeq(xs, 1, Len(xs) - 1)), xs[Len(xs)])

\* lines 198-201: the rows the x0 samples are taken from
SourceRows(lines, data_rows, header_idx) ==
    IF data_rows # <<>> THEN data_rows ELSE <<header_idx>>

\* lines 202-206: column_x0_candidates[i], in whole units
RECURSIVE ColumnCandidates(_, _, _)
ColumnCandidates(lines, rows, i) ==
    IF rows = <<>> THEN <<>>
    ELSE LET r == Head(rows)
         IN (IF r < Len(lines) /\ i < Len(lines[r + 1])
             THEN <<lines[r + 1][i + 1].x0>> ELSE <<>>)
            \o ColumnCandidates(lines, Tail(rows), i)

\* statistics.mean
Mean(samples) == (SeqSum(samples) * Scale) \div Len(samples)

\* lines 209-214: avg_x0_starts[0 .. i - 1] is prev; the start of column i
ColumnStart(lines, rows, header_idx, n, i, prev) ==
    LET cands == ColumnCandidates(lines, rows, i)
        ref_header_words == IF header_idx < Len(lines) THEN lines[header_idx + 1] ELSE <<>>
    IN IF cands # <<>> THEN Mean(cands)
       ELSE IF i < Len(ref_header_words) THEN ref_header_words[i + 1].x0 * Scale
       ELSE IF i > 0 THEN prev[i] + 50 * Scale
       ELSE MinX + i * ((MaxX - MinX) \div n)

RECURSIVE AvgStarts(_, _, _, _, _)
AvgStarts(lines, rows, header_idx, n, prev) ==
    IF Len(prev) >= n THEN prev
    ELSE AvgStarts(lines, rows, header_idx, n,
                   Append(prev, ColumnStart(lines, rows, header_idx, n, Len(prev), prev)))

\* the filter of line 215 left out
KeepAnyStart(x) == TRUE

\* line 215: [x for x in avg_x0_starts if x <= max_x]
KeepStart(x) == x <= MaxX

RECURSIVE FilterStarts(_)
FilterStarts(xs) ==
    IF xs = <<>> THEN <<>>
    ELSE (IF KeepStart(Head(xs)) THEN <<Head(xs)>> ELSE <<>>) \o FilterStarts(Tail(xs))

EffectiveColStarts(avg) == SortNums(FilterStarts(avg))

\* col_end without the widening of line 224
ColEndNotWidened(eff, i, cursor) ==
    IF i + 1 <= Len(eff) THEN (eff[i] + eff[i + 1]) \div 2 ELSE MaxX

\* lines 221-225: col_end of column i (1-based here), cursor = current_col_start
ColEnd(eff, i, cursor) ==
    IF i + 1 <= Len(eff)
    THEN LET mid == (eff[i] + eff[i + 1]) \div 2
         IN IF mid <= cursor + 1 * Scale THEN cursor + 10 * Scale ELSE mid
    ELSE MaxX

\* lines 226-227: actual_start
ActualStart(col_text_start, cursor, col_end) ==
    LET a == Min2(cursor, IF col_text_start > cursor THEN col_text_start ELSE cursor)
    IN IF a >= col_end
       THEN (IF col_end > 10 * Scale THEN col_end - 10 * Scale ELSE 0)
       ELSE a

\* lines 219-229: the loop over effective_col_starts
RECURSIVE BoundaryLoop(_, _, _, _)
BoundaryLoop(eff, i, cursor, boundaries) ==
    IF i > Len(eff) THEN boundaries
    ELSE LET col_end == ColEnd(eff, i, cursor)
             actual_start == ActualStart(eff[i], cursor, col_end)
         IN BoundaryLoop(eff, i + 1,
                         IF col_end > actual_start THEN col_end
                                                   ELSE actual_start + 10 * Scale,
                         Append(boundaries, <<actual_start, col_end>>))

\* lines 230-234: the last boundary is extended to max_x
ExtendLast(boundaries, n) ==
    IF boundaries # <<>> /\ boundaries[Len(boundaries)][2] < MaxX
    THEN LET last_start == boundaries[Len(boundaries)][1]
         IN [boundaries EXCEPT ![Len(boundaries)] =
                IF last_start < MaxX THEN <<last_start, MaxX>>
                                     ELSE <<MaxX - 10 * Scale, MaxX>>]
    ELSE IF boundaries = <<>> /\ n > 0 THEN <<<<MinX, MaxX>>>>
    ELSE boundaries

define_adaptive_column_boundaries(lines, data_rows, header_idx, n) ==
    IF n = 0 THEN <<<<MinX, MaxX>>>>
    ELSE IF data_rows = <<>> /\ ~(header_idx < Len(lines)) THEN <<<<MinX, MaxX>>>>
    ELSE LET rows == SourceRows(lines, data_rows, header_idx)
             avg == AvgStarts(lines, rows, header_idx, n, <<>>)
             eff == EffectiveColStarts(avg)
         IN IF eff = <<>> THEN <<<<MinX, MaxX>>>>
            ELSE ExtendLast(BoundaryLoop(eff, 1, MinX, <<>>), n)

(***************************************************************************)
(* map_lines_to_grid, lines 237-268                                        *)
(***************************************************************************)
\* line 254: overlap of the word with the column, in 1/Scale units
Overlap(word, b) ==
    Max2(0, Min2(word.x1 * Scale, b[2]) - Max2(word.x0 * Scale, b[1]))

\* lines 252-262: the scan over the columns, acc = [best |-> col_idx or -1,
\* max |-> the largest overlap so far].  Every ratio of one word has the same
\* positive denominator word_width (line 250), so ratios compare as overlaps
\* do and max_overlap_ratio = max / word_width.
RECURSIVE ColumnScan(_, _, _, _)
ColumnScan(word, boundaries, col_idx, acc) ==
    IF col_idx >= Len(boundaries) THEN acc
    ELSE LET b == boundaries[col_idx + 1]
             overlap == Overlap(word, b)
         IN IF b[1] >= b[2] THEN ColumnScan(word, boundaries, col_idx + 1, acc)
            ELSE IF overlap > acc.max
                 THEN ColumnScan(word, boundaries, col_idx + 1,
                                 [best |-> col_idx, max |-> overlap])
            ELSE IF overlap > 0 /\ acc.best = -1
                 THEN ColumnScan(word, boundaries, col_idx + 1,
                                 [best |-> col_idx, max |-> acc.max])
            ELSE ColumnScan(word, boundaries, col_idx + 1, acc)

\* the first column the word overlaps at all, -1 when there is none
FirstOverlappingColumn(word, boundaries) ==
    LET cols == { c \in 0..(Len(boundaries) - 1) : Overlap(word, boundaries[c + 1]) > 0 }
    IN IF cols = {} THEN -1 ELSE CHOOSE c \in cols : \A d \in cols : c <= d

\* best_col_idx of the word, -1 when it overlaps no column
BestColumn(word, boundaries) ==
    ColumnScan(word, boundaries, 0, [best |-> -1, max |-> 0]).best

\* lines 246-266: the loop over the words of one line
RECURSIVE PlaceWords(_, _, _)
PlaceWords(line_words, boundaries, row_cells) ==
    IF line_words = <<>> THEN row_cells
    ELSE LET word == Head(line_words)
             word_text == Strip(word.text)
             best == BestColumn(word, boundaries)
         IN IF word_text = <<>> \/ best = -1
            THEN PlaceWords(Tail(line_words), boundaries, row_cells)
            ELSE PlaceWords(Tail(line_words), boundaries,
                    [row_cells EXCEPT ![best + 1] =
                        (IF @ # <<>> THEN @ \o <<" ">> ELSE @) \o word_text])

\* a row cut after its last non-empty cell
RECURSIVE TrimEmptyTail(_)
TrimEmptyTail(cells) ==
    IF cells # <<>> /\ cells[Len(cells)] = <<>>
    THEN TrimEmptyTail(SubSeq(cells, 1, Len(cells) - 1)) ELSE cells

GridRowTrimmed(line_words, boundaries) ==
    TrimEmptyTail(PlaceWords(line_words, boundaries,
                             [c \in 1..Len(boundaries) |-> <<>>]))

\* lines 245-267: one grid row
GridRow(line_words, boundaries) ==
    LET cells == PlaceWords(line_words, boundaries,
                            [c \in 1..Len(boundaries) |-> <<>>])
    IN [c \in 1..Len(cells) |-> Strip(cells[c])]

map_lines_to_grid(lines, boundaries) ==
    IF boundaries = <<>>
    THEN [l \in 1..Len(lines) |->
            << Strip(JoinSpace([w \in 1..Len(lines[l]) |-> lines[l][w].text])) >>]
    ELSE [l \in 1..Len(lines) |-> GridRow(lines[l], boundaries)]

(***************************************************************************)
(* structure_data_for_excel, lines 306-348                                 *)
(* An Optional[int] is <<>> (None) or <<i>>.  Grid row i of the code       *)
(* (0-based) is grid_data[i + 1], cell k is row_cells[k + 1].              *)
(***************************************************************************)
\* line 314: KAN_HEADERS_TEMPLATE[:num_actual_columns_in_grid]
EffectiveKanHeaders(n) ==
    SubSeq(KAN_HEADERS_TEMPLATE, 1, Min2(n, Len(KAN_HEADERS_TEMPLATE)))

\* lines 315-319: kan_header_to_idx.get(name)
KanIdx(name, n) ==
    LET eff == EffectiveKanHeaders(n)
        hits == { i \in 0..(Len(eff) - 1) : eff[i + 1] = name }
    IN IF hits = {} THEN <<>> ELSE << CHOOSE i \in hits : \A j \in hits : j <= i >>

idx_axis(n)    == KanIdx(<<"{zhou}">>, n)
idx_nominal(n) == KanIdx(<<"{biao}", "{cheng}", "{zhi}">>, n)
idx_pos_tol(n) == KanIdx(<<"{zheng}", "{gong}", "{cha}">>, n)
idx_neg_tol(n) == KanIdx(<<"{fu}", "{gong}", "{cha}">>, n)
\* the measured value looked up under the maximum's column name
idx_actual_as_max(n) == KanIdx(<<"{zui}", "{da}", "{zhi}">>, n)
idx_actual(n)  == KanIdx(<<"{ce}", "{ding}">>, n)
idx_dev(n)     == KanIdx(<<"{pian}", "{cha}">>, n)
idx_oot(n)     == KanIdx(<<"{chao}", "{cha}">>, n)

\* line 340
direct_map_kan_indices(n) ==
    { i \in 0..(Len(KAN_HEADERS_TEMPLATE) - 1) :
        <<i>> \in { idx_actual(n), idx_nominal(n), idx_pos_tol(n), idx_neg_tol(n),
                    idx_dev(n), idx_oot(n), idx_axis(n) } }

\* lines 330-335: the cell at idx, "" when idx is None or beyond the row
FieldAt(idx, row_cells) ==
    IF idx # <<>> /\ idx[1] < Len(row_cells) THEN row_cells[idx[1] + 1] ELSE <<>>

\* line 322: any(row_cells)
AnyCell(row_cells) == \E k \in 1..Len(row_cells) : row_cells[k] # <<>>

\* a marker pattern that matches nothing
NeverDimMarker(first_cell_text) == FALSE

\* line 324: re.match(r"^\s*DIM", first_cell_text, re.IGNORECASE)
IsDimMarker(first_cell_text) ==
    LET t == LStrip(first_cell_text)
    IN Len(t) >= 3 /\ Upper(SubSeq(t, 1, 3)) = <<"D", "I", "M">>

\* [cell for cell in row_cells if cell]
RECURSIVE NonEmptyCells(_)
NonEmptyCells(row_cells) ==
    IF row_cells = <<>> THEN <<>>
    ELSE (IF Head(row_cells) # <<>> THEN <<Head(row_cells)>> ELSE <<>>)
         \o NonEmptyCells(Tail(row_cells))

\* the marker's first cell taken for the whole row's text
FirstCellOnly(row_cells) == Strip(row_cells[1])

\* line 325
FeatureNameOf(row_cells) == Strip(JoinSpace(NonEmptyCells(row_cells)))

\* lines 341-343: other_kan_values, from template position k_idx on
RECURSIVE OtherKanValues(_, _, _)
OtherKanValues(row_cells, n, k_idx) ==
    IF k_idx >= Len(EffectiveKanHeaders(n)) THEN <<>>
    ELSE (IF k_idx \notin direct_map_kan_indices(n) /\ k_idx < Len(row_cells)
             /\ row_cells[k_idx + 1] # <<>>
          THEN << EffectiveKanHeaders(n)[k_idx + 1] \o <<":", " ">> \o row_cells[k_idx + 1] >>
          ELSE <<>>)
         \o OtherKanValues(row_cells, n, k_idx + 1)

\* lines 336-345: excel_row[8]
Remarks(row_cells, n) ==
    LET axis == IF idx_axis(n) # <<>> /\ idx_axis(n)[1] < Len(row_cells)
                   /\ row_cells[idx_axis(n)[1] + 1] # <<>>
                THEN << <<"{zhou}", ":", " ">> \o row_cells[idx_axis(n)[1] + 1] >>
                ELSE <<>>
        other == OtherKanValues(row_cells, n, 0)
        remarks == axis \o (IF other # <<>> THEN << JoinSemicolon(other) >> ELSE <<>>)
    IN Strip(JoinSemicolon(remarks))

\* lines 328-345: excel_row
ExcelRow(row_cells, n, item_serial_number, current_feature_name) ==
    << item_serial_number,
       current_feature_name,
       FieldAt(idx_actual(n), row_cells),
       FieldAt(idx_nominal(n), row_cells),
       FieldAt(idx_pos_tol(n), row_cells),
       FieldAt(idx_neg_tol(n), row_cells),
       FieldAt(idx_dev(n), row_cells),
       FieldAt(idx_oot(n), row_cells),
       Remarks(row_cells, n) >>

\* line 312
InitialFeatureName == <<"N", "/", "A">>

\* the increment of line 347 left out
KeepSerial(item_serial_number) == item_serial_number

\* line 347
NextSerial(item_serial_number) == item_serial_number + 1

\* lines 321-347: the loop from grid row i on
RECURSIVE StructureRows(_, _, _, _, _, _, _)
StructureRows(grid, data_rows, n, i, current_feature_name, item_serial_number, out) ==
    IF i >= Len(grid) THEN out
    ELSE LET row_cells == grid[i + 1]
         IN IF ~AnyCell(row_cells)
            THEN StructureRows(grid, data_rows, n, i + 1, current_feature_name,
                               item_serial_number, out)
            ELSE IF IsDimMarker(Strip(row_cells[1]))
            THEN StructureRows(grid, data_rows, n, i + 1, FeatureNameOf(row_cells),
                               item_serial_number, out)
            ELSE IF i \in Range(data_rows)
            THEN StructureRows(grid, data_rows, n, i + 1, current_feature_name,
                    NextSerial(item_serial_number),
                    Append(out, ExcelRow(row_cells, n, item_serial_number,
                                         current_feature_name)))
            ELSE StructureRows(grid, data_rows, n, i + 1, current_feature_name,
                               item_serial_number, out)

structure_data_for_excel(grid, data_rows, n) ==
    StructureRows(grid, data_rows, n, 0, InitialFeatureName, 1, <<>>)

(***************************************************************************)
(* sanitize_filename_component, lines 50-74                                *)
(***************************************************************************)
\* the CJK characters of the model's alphabet (all of them match \w)
CJKChars == { "{zhou}", "{biao}", "{cheng}", "{zhi}", "{zheng}", "{gong}", "{cha}",
              "{fu}", "{ce}", "{ding}", "{zui}", "{da}", "{xiao}", "{pian}", "{chao}",
              "{ling}", "{jian}", "{ming}", "{bu}", "{xu}", "{lie}", "{hao}", "{bian}" }

\* \w of a str pattern
IsWordChar(c) ==
    c \in Range(LowerLetters) \cup Range(UpperLetters) \cup Digits \cup {"_"} \cup CJKChars

\* re.sub(r'[^\w.-]', '_', text)
ReplaceProblematic(s) ==
    [i \in 1..Len(s) |-> IF IsWordChar(s[i]) \/ s[i] \in {".", "-"} THEN s[i] ELSE "_"]

\* lines 63-64
ReplaceLeadingHyphenOrDot(s) ==
    IF s # <<>> /\ s[1] \in {"-", "."} THEN <<"_">> \o Tail(s) ELSE s

\* re.sub(r'_+', '_', text)
RECURSIVE CollapseUnderscores(_)
CollapseUnderscores(s) ==
    IF s = <<>> THEN <<>>
    ELSE IF Len(s) >= 2 /\ s[1] = "_" /\ s[2] = "_" THEN CollapseUnderscores(Tail(s))
    ELSE <<Head(s)>> \o CollapseUnderscores(Tail(s))

\* text.strip('_')
RECURSIVE StripUnderscores(_)
StripUnderscores(s) ==
    IF s # <<>> /\ s[1] = "_" THEN StripUnderscores(Tail(s))
    ELSE IF s # <<>> /\ s[Len(s)] = "_" THEN StripUnderscores(SubSeq(s, 1, Len(s) - 1))
    ELSE s

sanitize_filename_component(text, default_if_empty) ==
    IF Strip(text) = <<>> THEN default_if_empty
    ELSE LET t == StripUnderscores(CollapseUnderscores(
                      ReplaceLeadingHyphenOrDot(ReplaceProblematic(Strip(text)))))
         IN IF t = <<>> THEN default_if_empty ELSE t

(***************************************************************************)
(* extract_top_level_info_from_grid, lines 271-303                         *)
(***************************************************************************)
UnknownPart == <<"U","n","k","n","o","w","n","P","a","r","t">>
NoSerial == <<"N","o","S","e","r","i","a","l">>

\* str(i) for i >= 0
RECURSIVE IntToStr(_)
IntToStr(i) ==
    LET d == <<"0", "1", "2", "3", "4", "5", "6", "7", "8", "9">>
    IN IF i < 10 THEN << d[i + 1] >> ELSE IntToStr(i \div 10) \o << d[(i % 10) + 1] >>

\* a stem that is always blank
NoStem(name) == <<>>

\* os.path.splitext(name)[0]: up to the last dot, unless only dots precede it
SplitExtStem(name) ==
    LET dots == { k \in 1..Len(name) : name[k] = "." }
    IN IF dots = {} THEN name
       ELSE LET k == CHOOSE k \in dots : \A j \in dots : j <= k
            IN IF \A j \in 1..(k - 1) : name[j] = "." THEN name ELSE SubSeq(name, 1, k - 1)

\* .replace(full-width colon, ":")
ReplaceWideColon(s) == [i \in 1..Len(s) |-> IF s[i] = "{colon}" THEN ":" ELSE s[i]]

\* line 274
RowText(row) == ReplaceWideColon(JoinSpace(NonEmptyCells(row)))

PartLabels == << <<"{ling}", "{jian}", "{ming}">>, <<"{ling}", "{jian}">>,
                 <<"{bu}", "{jian}", "{ming}">>, <<"{bu}", "{jian}">> >>
SerialLabels == << <<"{xu}", "{lie}", "{hao}">>, <<"{xu}", "{hao}">>,
                   <<"{bian}", "{hao}">> >>

\* the position after \s* matched greedily from position p
RECURSIVE SkipSpaces(_, _)
SkipSpaces(s, p) == IF p <= Len(s) /\ s[p] \in Whitespace THEN SkipSpaces(s, p + 1) ELSE p

\* the end of the longest match of [^\s]+(?:[\s_][^\s]+)* starting at p, where
\* s[p] is not whitespace: runs of non-space joined by single whitespace
RECURSIVE CaptureEnd(_, _)
CaptureEnd(s, p) ==
    IF p + 1 > Len(s) THEN p
    ELSE IF s[p + 1] \notin Whitespace THEN CaptureEnd(s, p + 1)
    ELSE IF p + 2 <= Len(s) /\ s[p + 2] \notin Whitespace THEN CaptureEnd(s, p + 2)
    ELSE p

\* the match of  label \s*:\s*(capture)  with the label starting at p:
\* <<first, last>> of the capture, or <<>>
LabelMatchAt(s, label, p) ==
    IF p + Len(label) - 1 <= Len(s) /\ SubSeq(s, p, p + Len(label) - 1) = label
    THEN LET c == SkipSpaces(s, p + Len(label))
         IN IF c <= Len(s) /\ s[c] = ":"
            THEN LET g == SkipSpaces(s, c + 1)
                 IN IF g <= Len(s) THEN <<g, CaptureEnd(s, g)>> ELSE <<>>
            ELSE <<>>
    ELSE <<>>

\* the first alternative, in the pattern's order, that matches at p
RECURSIVE AltMatchAt(_, _, _, _)
AltMatchAt(s, labels, k, p) ==
    IF k > Len(labels) THEN <<>>
    ELSE IF LabelMatchAt(s, labels[k], p) # <<>> THEN LabelMatchAt(s, labels[k], p)
    ELSE AltMatchAt(s, labels, k + 1, p)

\* re.search: the match at the leftmost position; group(1) as <<first, last>>
RECURSIVE SearchFrom(_, _, _)
SearchFrom(s, labels, p) ==
    IF p > Len(s) THEN <<>>
    ELSE IF AltMatchAt(s, labels, 1, p) # <<>> THEN AltMatchAt(s, labels, 1, p)
    ELSE SearchFrom(s, labels, p + 1)

\* match.group(1).strip(), or <<>> when there is no match (a match captures
\* at least one character)
Captured(s, labels) ==
    LET m == SearchFrom(s, labels, 1)
    IN IF m = <<>> THEN <<>> ELSE Strip(SubSeq(s, m[1], m[2]))

\* str.find: 0-based index of the first occurrence (the needle occurs)
StrFind(haystack, needle) ==
    (CHOOSE i \in 1..(Len(haystack) - Len(needle) + 1) :
        /\ SubSeq(haystack, i, i + Len(needle) - 1) = needle
        /\ \A j \in 1..(i - 1) : SubSeq(haystack, j, j + Len(needle) - 1) # needle) - 1

\* lines 288-294: serial_cell_idx, -1 when no cell is found
RECURSIVE SerialCellIdx(_, _, _, _)
SerialCellIdx(row, idx, current_char_count, start_char_idx) ==
    IF idx >= Len(row) THEN -1
    ELSE IF current_char_count <= start_char_idx
            /\ start_char_idx < current_char_count + Len(row[idx + 1]) + 1
         THEN idx
    ELSE SerialCellIdx(row, idx + 1, current_char_count + Len(row[idx + 1]) + 1,
                       start_char_idx)

\* lines 281-298: extracted_serial after the attempt to add the next cell
ExtendedSerial(row, row_text, extracted_serial) ==
    IF Len(row) > ((StrFind(row_text, extracted_serial) + Len(extracted_serial)) \div 10)
    THEN LET c == SerialCellIdx(row, 0, 0, StrFind(row_text, extracted_serial))
         IN IF c # -1 /\ c + 1 < Len(row) /\ row[c + 2] # <<>>
            THEN extracted_serial \o <<" ">> \o row[c + 2]
            ELSE extracted_serial
    ELSE extracted_serial

\* lines 273-301: the loop from row_idx on
RECURSIVE InfoScan(_, _, _)
InfoScan(grid, row_idx, info) ==
    IF row_idx >= Len(grid) \/ row_idx >= 5 THEN info
    ELSE LET row == grid[row_idx + 1]
             row_text == RowText(row)
             part == Captured(row_text, PartLabels)
             serial == Captured(row_text, SerialLabels)
             part_name ==
                 IF part # <<>>
                 THEN sanitize_filename_component(part,
                          <<"P","a","r","t","R","o","w">> \o IntToStr(row_idx))
                 ELSE info.part_name
             serial_number ==
                 IF serial # <<>>
                 THEN sanitize_filename_component(ExtendedSerial(row, row_text, serial),
                          <<"S","e","r","i","a","l","R","o","w">> \o IntToStr(row_idx))
                 ELSE info.serial_number
         IN InfoScan(grid, row_idx + 1,
                     [part_name |-> part_name, serial_number |-> serial_number])

extract_top_level_info_from_grid(grid, name) ==
    LET info == InfoScan(grid, 0,
                    [part_name |-> sanitize_filename_component(SplitExtStem(name), UnknownPart),
                     serial_number |-> <<>>])
    IN [info EXCEPT !.serial_number = IF @ = <<>> THEN NoSerial ELSE @]

(***************************************************************************)
(* process_pdf_file, lines 363-418, one action per stage                   *)
(***************************************************************************)
XlsxSuffix == <<".", "x", "l", "s", "x">>

\* lines 367-370
ExtractLines ==
    /\ pc = "extract"
    /\ reconstructed_lines' = IF extract_fails THEN <<>> ELSE ReconstructLines(words)
    /\ IF reconstructed_lines' = <<>>
       THEN pc' = "done" /\ returned' = "False"
       ELSE pc' = "identify" /\ returned' = returned
    /\ UNCHANGED main_vars
    /\ UNCHANGED <<pdf_filename, words, extract_fails, data_row_indices, header_row_idx,
                   num_header_cols, column_boundaries, grid_data, top_level_info,
                   final_data_for_excel, excel_filename_base, excel_path, counter,
                   write_fails, output_dir>>

\* lines 372-376
Identify ==
    /\ pc = "identify"
    /\ data_row_indices' = DataRowIndices(reconstructed_lines)
    /\ header_row_idx' = HeaderRef(reconstructed_lines, data_row_indices').idx
    /\ num_header_cols' = HeaderRef(reconstructed_lines, data_row_indices').cols
    /\ IF header_row_idx' >= Len(reconstructed_lines)
       THEN pc' = "done" /\ returned' = "False"
       ELSE pc' = "boundaries" /\ returned' = returned
    /\ UNCHANGED main_vars
    /\ UNCHANGED <<pdf_filename, words, extract_fails, reconstructed_lines,
                   column_boundaries, grid_data, top_level_info, final_data_for_excel,
                   excel_filename_base, excel_path, counter, write_fails, output_dir>>

\* lines 382-384
DefineBoundaries ==
    /\ pc = "boundaries"
    /\ column_boundaries' = define_adaptive_column_boundaries(
           reconstructed_lines, data_row_indices, header_row_idx, num_header_cols)
    /\ pc' = "grid"
    /\ UNCHANGED main_vars
    /\ UNCHANGED <<pdf_filename, words, extract_fails, reconstructed_lines,
                   data_row_indices, header_row_idx, num_header_cols, grid_data,
                   top_level_info, final_data_for_excel, excel_filename_base,
                   excel_path, counter, write_fails, output_dir, returned>>

\* line 385
MapGrid ==
    /\ pc = "grid"
    /\ grid_data' = map_lines_to_grid(reconstructed_lines, column_boundaries)
    /\ pc' = "info"
    /\ UNCHANGED main_vars
    /\ UNCHANGED <<pdf_filename, words, extract_fails, reconstructed_lines,
                   data_row_indices, header_row_idx, num_header_cols, column_boundaries,
                   top_level_info, final_data_for_excel, excel_filename_base,
                   excel_path, counter, write_fails, output_dir, returned>>

\* line 387
TopLevelInfo ==
    /\ pc = "info"
    /\ top_level_info' = extract_top_level_info_from_grid(grid_data, pdf_filename)
    /\ pc' = "structure"
    /\ UNCHANGED main_vars
    /\ UNCHANGED <<pdf_filename, words, extract_fails, reconstructed_lines,
                   data_row_indices, header_row_idx, num_header_cols, column_boundaries,
                   grid_data, final_data_for_excel, excel_filename_base, excel_path,
                   counter, write_fails, output_dir, returned>>

\* lines 389-391
StructureData ==
    /\ pc = "structure"
    /\ final_data_for_excel' = structure_data_for_excel(
           grid_data, data_row_indices, Len(column_boundaries))
    /\ pc' = "name"
    /\ UNCHANGED main_vars
    /\ UNCHANGED <<pdf_filename, words, extract_fails, reconstructed_lines,
                   data_row_indices, header_row_idx, num_header_cols, column_boundaries,
                   grid_data, top_level_info, excel_filename_base, excel_path, counter,
                   write_fails, output_dir, returned>>

\* the test of line 393 left out
AlwaysSave(data_rows) == TRUE

\* line 393: is there anything to save?
HasRecords(data_rows) == data_rows # <<>>

\* lines 393-403 and 412-414
ChooseName ==
    /\ pc = "name"
    /\ IF HasRecords(final_data_for_excel)
       THEN /\ excel_filename_base' =
                   sanitize_filename_component(top_level_info.part_name, UnknownPart)
                   \o <<"_">>
                   \o sanitize_filename_component(top_level_info.serial_number, NoSerial)
            /\ excel_path' = excel_filename_base' \o XlsxSuffix
            /\ counter' = 1
            /\ pc' = "exists"
            /\ returned' = returned
       ELSE /\ pc' = "done"
            /\ returned' = "False"
            /\ UNCHANGED <<excel_filename_base, excel_path, counter>>
    /\ UNCHANGED main_vars
    /\ UNCHANGED <<pdf_filename, words, extract_fails, reconstructed_lines,
                   data_row_indices, header_row_idx, num_header_cols, column_boundaries,
                   grid_data, top_level_info, final_data_for_excel, write_fails,
                   output_dir>>

\* the test of line 404 always failing
NeverExists(path, dir) == FALSE

\* line 404: os.path.exists(excel_path)
PathExists(path, dir) == path \in dir

\* lines 404-407: one test of the while condition
CheckExists ==
    /\ pc = "exists"
    /\ IF PathExists(excel_path, output_dir)
       THEN /\ excel_path' = excel_filename_base \o <<"_">> \o IntToStr(counter) \o XlsxSuffix
            /\ counter' = counter + 1
            /\ pc' = pc
       ELSE /\ pc' = "save"
            /\ UNCHANGED <<excel_path, counter>>
    /\ UNCHANGED main_vars
    /\ UNCHANGED <<pdf_filename, words, extract_fails, reconstructed_lines,
                   data_row_indices, header_row_idx, num_header_cols, column_boundaries,
                   grid_data, top_level_info, final_data_for_excel, excel_filename_base,
                   write_fails, output_dir, returned>>

\* lines 409-411 with save_to_excel, lines 350-360, and the handler of lines
\* 416-418: a failed write is re-raised, caught, and False is returned; the
\* failed write may or may not leave a file behind
SaveToExcel ==
    /\ pc = "save"
    /\ IF final_data_for_excel = <<>>
       THEN \* lines 351-353: nothing to save, nothing written
            /\ returned' = "True"
            /\ output_dir' = output_dir
       ELSE IF write_fails
       THEN /\ returned' = "False"
            /\ output_dir' \in {output_dir, output_dir \cup {excel_path}}
       ELSE /\ returned' = "True"
            /\ output_dir' = output_dir \cup {excel_path}
    /\ pc' = "done"
    /\ UNCHANGED main_vars
    /\ UNCHANGED <<pdf_filename, words, extract_fails, reconstructed_lines,
                   data_row_indices, header_row_idx, num_header_cols, column_boundaries,
                   grid_data, top_level_info, final_data_for_excel, excel_filename_base,
                   excel_path, counter, write_fails>>

(***************************************************************************)
(* Specifications                                                          *)
(***************************************************************************)
\* the variables a stage has not written yet
NoInfo == [part_name |-> <<>>, serial_number |-> <<>>]

\* main is not running and nothing calls process_pdf_file concurrently
NoBatch ==
    /\ pdf_files = <<>>
    /\ file_no = 0
    /\ successful_pdfs = <<>>
    /\ failed_pdfs = {}
    /\ workers = <<>>

NothingNamed ==
    /\ NoBatch
    /\ top_level_info = NoInfo
    /\ excel_filename_base = <<>>
    /\ excel_path = <<>>
    /\ counter = 0
    /\ write_fails = FALSE
    /\ output_dir = {}
    /\ returned = "None"

DefaultPdfName == <<"r", ".", "p", "d", "f">>

(***************************************************************************)
(* SpecLines: extract_words_and_reconstruct_lines on every token           *)
(* collection of up to MaxWords tokens, in every extraction order.         *)
(***************************************************************************)
LineTokens == [text : {<<"a">>}, x0 : {10, 20}, x1 : {30}, top : 0..MaxTop]

InitLines ==
    /\ pc = "extract"
    /\ pdf_filename = DefaultPdfName
    /\ words \in SeqUpTo(LineTokens, MaxWords)
    /\ extract_fails = FALSE
    /\ reconstructed_lines = <<>>
    /\ data_row_indices = <<>>
    /\ header_row_idx = 0
    /\ num_header_cols = 0
    /\ column_boundaries = <<>>
    /\ grid_data = <<>>
    /\ final_data_for_excel = <<>>
    /\ NothingNamed

NextLines == ExtractLines

SpecLines == InitLines /\ [][NextLines]_vars

LinesDone == pc # "extract"

\* C1: line reconstruction neither loses nor duplicates tokens (the multiset
\* of the tokens of all output lines is the multiset of the input tokens),
\* and no output line is empty.
C1_TokensPreserved ==
    LinesDone =>
        /\ BagOfSeq(Flatten(reconstructed_lines)) = BagOfSeq(words)
        /\ \A l \in 1..Len(reconstructed_lines) : reconstructed_lines[l] # <<>>

\* a token that occurs twice in the input, spread over at least two lines
C1_Witness ==
    /\ LinesDone
    /\ Len(reconstructed_lines) >= 2
    /\ \E i, j \in 1..Len(words) : i < j /\ words[i] = words[j]

\* C2: lines are emitted in non-decreasing vertical order: every token of a
\* later line has top >= the top of every token of an earlier line, whatever
\* order the tokens arrived in.
C2_LinesInVerticalOrder ==
    LinesDone =>
        \A i, j \in 1..Len(reconstructed_lines) :
            i < j =>
                \A a \in Range(reconstructed_lines[i]), b \in Range(reconstructed_lines[j]) :
                    b.top >= a.top

\* tokens that arrived bottom-up and were split into several lines
C2_Witness ==
    /\ LinesDone
    /\ Len(reconstructed_lines) >= 2
    /\ \E i \in 1..(Len(words) - 1) : words[i].top > words[i + 1].top + LINE_TOLERANCE

(***************************************************************************)
(* SpecBoundaries: define_adaptive_column_boundaries on arbitrary          *)
(* arguments: up to MaxLinesB lines of up to MaxColsB tokens (each line    *)
(* sorted by x0, as the line reconstructor leaves it), any data-row        *)
(* indices, any header index, any expected column count 0..MaxColsB.       *)
(***************************************************************************)
\* x0 values: left of MIN_X, and two at the right edge, up to MAX_X
XPoolB == {0, 699, 700}

BoundaryToken(x) == [text |-> <<"a">>, x0 |-> x, x1 |-> x + 1, top |-> 0]

BoundaryLines ==
    { [k \in 1..Len(xs) |-> BoundaryToken(xs[k])] :
        xs \in { ys \in SeqUpTo(XPoolB, MaxColsB) :
                    ys # <<>> /\ \A k \in 1..(Len(ys) - 1) : ys[k] <= ys[k + 1] } }

\* strictly ascending index lists over 0..MaxLinesB (one index past the end)
IndexLists ==
    { is \in SeqUpTo(0..MaxLinesB, MaxLinesB + 1) :
        \A k \in 1..(Len(is) - 1) : is[k] < is[k + 1] }

InitBoundaries ==
    /\ pc = "boundaries"
    /\ pdf_filename = DefaultPdfName
    /\ words = <<>>
    /\ extract_fails = FALSE
    /\ reconstructed_lines \in SeqUpTo(BoundaryLines, MaxLinesB)
    /\ data_row_indices \in IndexLists
    /\ header_row_idx \in 0..MaxLinesB
    /\ num_header_cols \in 0..MaxColsB
    /\ column_boundaries = <<>>
    /\ grid_data = <<>>
    /\ final_data_for_excel = <<>>
    /\ NothingNamed

NextBoundaries == DefineBoundaries

SpecBoundaries == InitBoundaries /\ [][NextBoundaries]_vars

BoundariesDone == pc \notin {"extract", "identify", "boundaries"}

BoundariesSorted ==
    \A i \in 1..(Len(column_boundaries) - 1) :
        column_boundaries[i][1] <= column_boundaries[i + 1][1]

BoundariesDisjoint ==
    \A i \in 1..(Len(column_boundaries) - 1) :
        column_boundaries[i][2] <= column_boundaries[i + 1][1]

BoundariesSpanRange ==
    /\ column_boundaries # <<>>
    /\ column_boundaries[1][1] = MinX
    /\ column_boundaries[Len(column_boundaries)][2] = MaxX

\* C3: boundary coverage: for every input with token x0 values at or below
\* MAX_X, the returned list is sorted by start, its intervals are pairwise
\* non-overlapping (end_i <= start_{i+1}), the first starts at MIN_X and the
\* last ends at MAX_X.
C3_BoundaryCoverage ==
    BoundariesDone => BoundariesSorted /\ BoundariesDisjoint /\ BoundariesSpanRange


(***************************************************************************)
(* SpecRecords: structure_data_for_excel on                                *)
(*  - every grid of up to MaxGridRows rows of five kinds (empty, data,     *)
(*    a non-empty row with an empty first cell, two marker rows) with      *)
(*    every choice of data-row indices;                                    *)
(*  - every one-row grid of up to MaxGridCols cells, each cell empty or    *)
(*    holding a value that names its column, with every column count;      *)
(*  - the 9-column scenario of the specification.                          *)
(***************************************************************************)
RowKinds ==
    { << <<>>, <<>>, <<>> >>,
      << <<"X">>, <<"1", "0">>, <<"2">> >>,
      << <<>>, <<"7">>, <<>> >>,
      << <<"D", "I", "M", "1">>, <<>>, <<"A">> >>,
      << <<"d", "i", "m">>, <<"B">>, <<>> >> }

\* the value of cell k (0-based) of a one-row grid: "v0", "v1", ...
CellValue(k) == <<"v">> \o IntToStr(k)

OneRow(w, filled) == [k \in 1..w |-> IF k \in filled THEN CellValue(k - 1) ELSE <<>>]

ScenarioRow ==
    << <<"X">>, <<"1","0",".","0","0">>, <<"0",".","0","5">>, <<"-","0",".","0","5">>,
       <<"1","0",".","0","2">>, <<"1","0",".","0","3">>, <<"1","0",".","0","1">>,
       <<"0",".","0","2">>, <<>> >>

\* n column boundaries, of which structure_data_for_excel takes the count
Columns(n) == [c \in 1..n |-> <<MinX, MaxX>>]

AscendingIndexLists(n) ==
    { is \in SeqUpTo(0..(n - 1), n) : \A k \in 1..(Len(is) - 1) : is[k] < is[k + 1] }

InitRecords ==
    /\ pc = "structure"
    /\ pdf_filename = DefaultPdfName
    /\ words = <<>>
    /\ extract_fails = FALSE
    /\ reconstructed_lines = <<>>
    /\ header_row_idx = 0
    /\ num_header_cols = 0
    /\ \/ /\ grid_data \in SeqUpTo(RowKinds, MaxGridRows)
          /\ data_row_indices \in AscendingIndexLists(Len(grid_data))
          /\ column_boundaries = Columns(3)
       \/ /\ \E w \in 0..MaxGridCols : \E filled \in SUBSET (1..w) :
                grid_data = << OneRow(w, filled) >>
          /\ data_row_indices = <<0>>
          /\ \E n \in 0..MaxGridCols : column_boundaries = Columns(n)
       \/ /\ grid_data = << ScenarioRow >>
          /\ data_row_indices = <<0>>
          /\ column_boundaries = Columns(9)
    /\ final_data_for_excel = <<>>
    /\ NothingNamed

NextRecords == StructureData

SpecRecords == InitRecords /\ [][NextRecords]_vars

RecordsDone == pc \in {"name", "exists", "save", "done"}

\* a marker row: a non-empty row whose first cell starts with DIM, in any case
MarkerRow(row) ==
    /\ \E k \in 1..Len(row) : row[k] # <<>>
    /\ Len(row[1]) >= 3
    /\ Upper(SubSeq(row[1], 1, 3)) = <<"D", "I", "M">>

\* the 0-based indices of the grid rows that yield a record, ascending: the
\* rows listed as data rows that are neither empty nor marker rows
RECURSIVE EmittingFrom(_, _, _)
EmittingFrom(grid, data_rows, i) ==
    IF i >= Len(grid) THEN <<>>
    ELSE (IF /\ \E k \in 1..Len(data_rows) : data_rows[k] = i
             /\ \E k \in 1..Len(grid[i + 1]) : grid[i + 1][k] # <<>>
             /\ ~MarkerRow(grid[i + 1])
          THEN <<i>> ELSE <<>>) \o EmittingFrom(grid, data_rows, i + 1)

EmittingRows == EmittingFrom(grid_data, data_row_indices, 0)

\* the feature name row i inherits: the space-joined non-empty cells of the
\* nearest marker row before it, "N/A" when there is none
InheritedName(i) ==
    LET before == { j \in 0..(i - 1) : MarkerRow(grid_data[j + 1]) }
    IN IF before = {} THEN <<"N", "/", "A">>
       ELSE LET j == CHOOSE j \in before : \A h \in before : h <= j
            IN JoinSpace(NonEmptyCells(grid_data[j + 1]))

\* C6: sticky feature name: every emitted record's feature_name is the
\* space-joined non-empty cells of the nearest preceding marker row, or "N/A"
\* if no marker row precedes it; the name persists over any number of data,
\* empty or unclassified rows until the next marker row.
C6_StickyFeatureName ==
    RecordsDone =>
        /\ Len(final_data_for_excel) = Len(EmittingRows)
        /\ \A k \in 1..Len(final_data_for_excel) :
              final_data_for_excel[k][2] = InheritedName(EmittingRows[k])

\* a marker row followed by three data rows, all three emitted
C6_Witness ==
    /\ RecordsDone
    /\ Len(grid_data) = 4
    /\ MarkerRow(grid_data[1])
    /\ EmittingRows = <<1, 2, 3>>
    /\ \A k \in 1..3 : final_data_for_excel[k][2] = JoinSpace(NonEmptyCells(grid_data[1]))

\* C7: the k-th emitted record carries sequence number k, also when marker,
\* empty or unclassified rows are interleaved with the data rows.
C7_SequenceNumbers ==
    RecordsDone =>
        \A k \in 1..Len(final_data_for_excel) : final_data_for_excel[k][1] = k

\* two records with a marker row and an empty row between their rows
C7_Witness ==
    /\ RecordsDone
    /\ Len(final_data_for_excel) = 2
    /\ Len(grid_data) = 4
    /\ MarkerRow(grid_data[2])
    /\ \A k \in 1..Len(grid_data[3]) : grid_data[3][k] = <<>>

\* the cell of the row at 0-based position p, when p is a column of a grid of
\* c columns and a cell of the row; the empty string otherwise
CellOrEmpty(row, p, c) == IF p < c /\ p < Len(row) THEN row[p + 1] ELSE <<>>

\* C9: canonical field mapping: nominal, upper_tol, lower_tol, actual,
\* deviation and out_of_tolerance are the row's cells at template positions
\* 1, 2, 3, 4, 7 and 8 when that position is < C and < the row length, and
\* empty otherwise; the 9-column scenario row gives nominal 10.00, upper_tol
\* 0.05, lower_tol -0.05, actual 10.02 and remarks containing "{zhou}: X".
C9_CanonicalFields ==
    RecordsDone =>
        /\ \A k \in 1..Len(final_data_for_excel) :
              LET row == grid_data[EmittingRows[k] + 1]
                  rec == final_data_for_excel[k]
                  c == Len(column_boundaries)
              IN /\ rec[4] = CellOrEmpty(row, 1, c)
                 /\ rec[5] = CellOrEmpty(row, 2, c)
                 /\ rec[6] = CellOrEmpty(row, 3, c)
                 /\ rec[3] = CellOrEmpty(row, 4, c)
                 /\ rec[7] = CellOrEmpty(row, 7, c)
                 /\ rec[8] = CellOrEmpty(row, 8, c)
        /\ (grid_data = << ScenarioRow >> /\ Len(column_boundaries) = 9) =>
              /\ Len(final_data_for_excel) = 1
              /\ final_data_for_excel[1][4] = <<"1","0",".","0","0">>
              /\ final_data_for_excel[1][5] = <<"0",".","0","5">>
              /\ final_data_for_excel[1][6] = <<"-","0",".","0","5">>
              /\ final_data_for_excel[1][3] = <<"1","0",".","0","2">>
              /\ Contains(final_data_for_excel[1][9], <<"{zhou}", ":", " ", "X">>)

\* a full row of a grid of 8 columns: deviation is mapped, out_of_tolerance
\* has no column
C9_Witness ==
    /\ RecordsDone
    /\ Len(column_boundaries) = 8
    /\ Len(final_data_for_excel) = 1
    /\ Len(grid_data[1]) = 10
    /\ final_data_for_excel[1][7] = CellValue(7)
    /\ final_data_for_excel[1][8] = <<>>
    /\ grid_data[1][9] # <<>>

\* the template positions the canonical mapping consumes
ConsumedPositions == {1, 2, 3, 4, 7, 8}

\* C8: remarks completeness: for every record and every grid column not
\* consumed by the canonical mapping (the axis column, the max/min columns,
\* any extra column of the document's header), a non-empty cell of the row
\* in that column appears in the remarks as a "name: value" pair.  The grid
\* of a document has as many cells per row as it has columns.
C8_RemarksComplete ==
    (RecordsDone /\ \A r \in 1..Len(grid_data) : Len(grid_data[r]) = Len(column_boundaries)) =>
        \A k \in 1..Len(final_data_for_excel) :
            LET row == grid_data[EmittingRows[k] + 1]
                remarks == final_data_for_excel[k][9]
            IN \A p \in 0..(Len(row) - 1) :
                  (p \notin ConsumedPositions /\ row[p + 1] # <<>>) =>
                      IF p < Len(KAN_HEADERS_TEMPLATE)
                      THEN Contains(remarks,
                                    KAN_HEADERS_TEMPLATE[p + 1] \o <<":", " ">> \o row[p + 1])
                      ELSE Contains(remarks, <<":", " ">> \o row[p + 1])

(***************************************************************************)
(* Spec: process_pdf_file on one document.  A document is up to            *)
(* MaxDocLines text lines, each one of the shapes of LineShapes, line k    *)
(* at top 10 * k; the extractor yields its words in reading order, or      *)
(* raises.  The output directory holds nothing, or the artifacts of        *)
(* earlier documents.                                                      *)
(***************************************************************************)
\* a line shape: the <<text, x0, x1>> of its words
LineShapes ==
    { \* three column titles
      << << <<"a","b">>, 100, 140 >>, << <<"c","d">>, 300, 340 >>, << <<"e","f">>, 500, 540 >> >>,
      \* three column titles, the last one right of MAX_X
      << << <<"a","b">>, 100, 140 >>, << <<"c","d">>, 300, 340 >>, << <<"e","f">>, 710, 750 >> >>,
      \* an axis row of three and one of two words
      << << <<"X">>, 100, 110 >>, << <<"1",".","5">>, 300, 330 >>, << <<"2">>, 500, 510 >> >>,
      << << <<"y">>, 102, 112 >>, << <<"3">>, 304, 314 >> >>,
      \* a feature marker
      << << <<"D","I","M","1">>, 100, 140 >>, << <<"A">>, 300, 310 >> >>,
      \* a word of blanks only
      << << <<" ">>, 100, 110 >> >>,
      \* the part label
      << << <<"{ling}","{jian}","{colon}">>, 100, 130 >>, << <<"P","1">>, 300, 320 >> >>,
      \* a word that straddles the first two columns evenly, and one that
      \* lies mostly in the third
      << << <<"g","h">>, 150, 250 >>, << <<"i","j">>, 390, 450 >> >> }

ShapeWords(shape, k) ==
    [j \in 1..Len(shape) |->
        [text |-> shape[j][1], x0 |-> shape[j][2], x1 |-> shape[j][3], top |-> 10 * k]]

DocumentWords(shapes) == Flatten([k \in 1..Len(shapes) |-> ShapeWords(shapes[k], k)])

Documents == { DocumentWords(shapes) : shapes \in SeqUpTo(LineShapes, MaxDocLines) }

\* artifacts of earlier documents named r.pdf without a serial number
EarlierArtifacts ==
    { {},
      { <<"r","_">> \o NoSerial \o XlsxSuffix },
      { <<"r","_">> \o NoSerial \o XlsxSuffix,
        <<"r","_">> \o NoSerial \o <<"_","1">> \o XlsxSuffix } }

Init ==
    /\ pc = "extract"
    /\ pdf_filename = DefaultPdfName
    /\ words \in Documents
    /\ extract_fails \in BOOLEAN
    /\ reconstructed_lines = <<>>
    /\ data_row_indices = <<>>
    /\ header_row_idx = 0
    /\ num_header_cols = 0
    /\ column_boundaries = <<>>
    /\ grid_data = <<>>
    /\ top_level_info = NoInfo
    /\ final_data_for_excel = <<>>
    /\ excel_filename_base = <<>>
    /\ excel_path = <<>>
    /\ counter = 0
    /\ write_fails \in BOOLEAN
    /\ output_dir \in EarlierArtifacts
    /\ returned = "None"
    /\ NoBatch

Next ==
    \/ ExtractLines
    \/ Identify
    \/ DefineBoundaries
    \/ MapGrid
    \/ TopLevelInfo
    \/ StructureData
    \/ ChooseName
    \/ CheckExists
    \/ SaveToExcel

Spec == Init /\ [][Next]_vars

\* map_lines_to_grid has returned: every later stage, and the end of a run
\* that got that far
GridDone ==
    \/ pc \in {"info", "structure", "name", "exists", "save"}
    \/ pc = "done" /\ grid_data # <<>>

\* the inferred column starts of the document (avg_x0_starts), and how many
\* of them are at or left of MAX_X
InferredStarts ==
    AvgStarts(reconstructed_lines,
              SourceRows(reconstructed_lines, data_row_indices, header_row_idx),
              header_row_idx, num_header_cols, <<>>)

StartsInRange == Cardinality({ i \in 1..Len(InferredStarts) : InferredStarts[i] <= MaxX })

\* C4 as claimed: the number of column boundaries of a document equals the
\* header column count N whenever N > 0 (and is 1 when N = 0), so every grid
\* row has exactly N cells, for every placement of the token x0 positions,
\* positions beyond MAX_X included.
C4_BoundaryCountIsN ==
    GridDone =>
        /\ Len(column_boundaries) = (IF num_header_cols > 0 THEN num_header_cols ELSE 1)
        /\ \A r \in 1..Len(grid_data) :
              Len(grid_data[r]) = (IF num_header_cols > 0 THEN num_header_cols ELSE 1)

\* C4 as amended: the number of column boundaries equals the number of
\* inferred column starts at or left of MAX_X (1 when there is none, or when
\* N = 0); it equals N when N > 0 and no inferred start lies beyond MAX_X, it
\* never exceeds N, and every grid row has exactly that many cells.
C4_BoundaryCountInRange ==
    GridDone =>
        /\ Len(column_boundaries) =
              (IF num_header_cols = 0 \/ StartsInRange = 0 THEN 1 ELSE StartsInRange)
        /\ (num_header_cols > 0 /\ StartsInRange = num_header_cols)
              => Len(column_boundaries) = num_header_cols
        /\ Len(column_boundaries) <= Max2(num_header_cols, 1)
        /\ \A r \in 1..Len(grid_data) : Len(grid_data[r]) = Len(column_boundaries)

\* a three-column header whose last title starts right of MAX_X: two columns
C4_Witness ==
    /\ GridDone
    /\ num_header_cols = 3
    /\ StartsInRange = 2
    /\ Len(column_boundaries) = 2
    /\ Len(grid_data[1]) = 2

\* does the word overlap one of the boundaries?
OverlapsSomeColumn(word) ==
    \E c \in 1..Len(column_boundaries) :
        /\ column_boundaries[c][1] < column_boundaries[c][2]
        /\ Min2(word.x1 * Scale, column_boundaries[c][2])
              > Max2(word.x0 * Scale, column_boundaries[c][1])

\* C5: grid shape: the grid has one row per reconstructed line, in the same
\* order (row l holds the words of line l and nothing else), and every row
\* has exactly len(boundaries) cells, empty where no word was mapped.
C5_GridShape ==
    GridDone =>
        /\ Len(grid_data) = Len(reconstructed_lines)
        /\ \A l \in 1..Len(grid_data) :
              /\ Len(grid_data[l]) = Len(column_boundaries)
              /\ \A w \in Range(reconstructed_lines[l]) :
                    (Strip(w.text) # <<>> /\ OverlapsSomeColumn(w)) =>
                        \E c \in 1..Len(grid_data[l]) : Contains(grid_data[l][c], Strip(w.text))
              /\ \A c \in 1..Len(grid_data[l]) :
                    grid_data[l][c] # <<>> =>
                        \E w \in Range(reconstructed_lines[l]) :
                            Strip(w.text) # <<>> /\ Contains(grid_data[l][c], Strip(w.text))

\* three lines, the second of which maps no word: its row is three empty cells
C5_Witness ==
    /\ GridDone
    /\ Len(grid_data) = 3
    /\ Len(column_boundaries) = 3
    /\ grid_data[2] = << <<>>, <<>>, <<>> >>
    /\ grid_data[1] # grid_data[3]
    /\ \E c \in 1..3 : grid_data[3][c] = <<>>

\* C10: a document that yields no result is a failure without output: with
\* zero reconstructed lines, or zero records at the end of the pipeline,
\* process_pdf_file returns False (it raises nothing), and no step of the run
\* changes the output directory.
C10_NoResultNoOutput ==
    /\ [](pc = "done" /\ final_data_for_excel = <<>> => returned = "False")
    /\ [][final_data_for_excel' = <<>> => output_dir' = output_dir]_vars

\* the pipeline ran to its end on a document with lines but without records,
\* next to the artifacts of earlier documents
C10_Witness ==
    /\ pc = "done"
    /\ grid_data # <<>>
    /\ final_data_for_excel = <<>>
    /\ returned = "False"
    /\ output_dir # {}

(***************************************************************************)
(* SpecBatch: main on a batch of up to MaxBatch documents, processed one   *)
(* after another into one output directory.                                *)
(***************************************************************************)
MaxBatch == 3

\* the frame of process_pdf_file before its first assignment
NoFrame ==
    /\ reconstructed_lines' = <<>>
    /\ data_row_indices' = <<>>
    /\ header_row_idx' = 0
    /\ num_header_cols' = 0
    /\ column_boundaries' = <<>>
    /\ grid_data' = <<>>
    /\ top_level_info' = NoInfo
    /\ final_data_for_excel' = <<>>
    /\ excel_filename_base' = <<>>
    /\ excel_path' = <<>>
    /\ counter' = 0

\* lines 431-444: the for loop takes the next document and calls
\* process_pdf_file on it
TakeDocument ==
    /\ pc = "idle"
    /\ file_no < Len(pdf_files)
    /\ file_no' = file_no + 1
    /\ pdf_filename' = pdf_files[file_no'].name
    /\ words' = pdf_files[file_no'].words
    /\ extract_fails' = pdf_files[file_no'].extract_fails
    /\ write_fails' = pdf_files[file_no'].write_fails
    /\ returned' = "None"
    /\ pc' = "extract"
    /\ NoFrame
    /\ UNCHANGED <<pdf_files, successful_pdfs, failed_pdfs, workers, output_dir>>

\* lines 416-418: an exception raised by a stage inside the try is caught
\* and process_pdf_file returns False
StageRaises ==
    /\ pc \in {"identify", "boundaries", "grid", "info", "structure", "name", "exists"}
    /\ pc' = "done"
    /\ returned' = "False"
    /\ UNCHANGED main_vars
    /\ UNCHANGED <<pdf_filename, words, extract_fails, reconstructed_lines,
                   data_row_indices, header_row_idx, num_header_cols, column_boundaries,
                   grid_data, top_level_info, final_data_for_excel, excel_filename_base,
                   excel_path, counter, write_fails, output_dir>>

\* lines 364-365: an exception raised before the try leaves process_pdf_file
ProcessRaises ==
    /\ pc = "extract"
    /\ file_no > 0
    /\ pc' = "done"
    /\ returned' = "Raised"
    /\ UNCHANGED main_vars
    /\ UNCHANGED <<pdf_filename, words, extract_fails, reconstructed_lines,
                   data_row_indices, header_row_idx, num_header_cols, column_boundaries,
                   grid_data, top_level_info, final_data_for_excel, excel_filename_base,
                   excel_path, counter, write_fails, output_dir>>

ReturnedFalse == "Processing returned False."

TopLevelError == "Unexpected top-level error: e"

\* the failure a failed document never gets recorded with
DictKeep(dict, name, reason) == dict

\* failed_pdfs[name] = reason
DictSet(dict, name, reason) == { e \in dict : e[1] # name } \cup { <<name, reason>> }

\* lines 443-450: main files the document under successful_pdfs or failed_pdfs
RecordResult ==
    /\ pc = "done"
    /\ file_no > 0
    /\ IF returned = "True"
       THEN /\ successful_pdfs' = Append(successful_pdfs, pdf_filename)
            /\ failed_pdfs' = failed_pdfs
       ELSE /\ successful_pdfs' = successful_pdfs
            /\ failed_pdfs' = DictSet(failed_pdfs, pdf_filename,
                                      IF returned = "False" THEN ReturnedFalse
                                                            ELSE TopLevelError)
    /\ pc' = "idle"
    /\ NoFrame
    /\ UNCHANGED <<pdf_filename, words, extract_fails, write_fails, returned,
                   pdf_files, file_no, workers, output_dir>>

\* os.listdir names of the reports directory
FileName(k) == << <<"a">>, <<"b">>, <<"c">>, <<"d">> >>[k] \o <<".", "p", "d", "f">>

PartLabelLine == << << <<"{ling}","{jian}","{colon}">>, 100, 130 >>, << <<"P","1">>, 300, 320 >> >>

AxisLine == << << <<"X">>, 100, 110 >>, << <<"1",".","5">>, 300, 330 >>, << <<"2">>, 500, 510 >> >>

TitleLine == << << <<"a","b">>, 100, 140 >>, << <<"c","d">>, 300, 340 >>, << <<"e","f">>, 500, 540 >> >>

\* what a report file can hold: nothing; an unreadable file; titles without
\* records; part P1 with one record; the same when the write fails; one
\* record without a part label
ReportKinds ==
    { [words |-> <<>>, extract_fails |-> FALSE, write_fails |-> FALSE],
      [words |-> DocumentWords(<<AxisLine>>), extract_fails |-> TRUE, write_fails |-> FALSE],
      [words |-> DocumentWords(<<TitleLine>>), extract_fails |-> FALSE, write_fails |-> FALSE],
      [words |-> DocumentWords(<<PartLabelLine, AxisLine>>), extract_fails |-> FALSE, write_fails |-> FALSE],
      [words |-> DocumentWords(<<PartLabelLine, AxisLine>>), extract_fails |-> FALSE, write_fails |-> TRUE],
      [words |-> DocumentWords(<<AxisLine>>), extract_fails |-> FALSE, write_fails |-> FALSE] }

Named(kinds) ==
    [k \in 1..Len(kinds) |->
        [name |-> FileName(k), words |-> kinds[k].words,
         extract_fails |-> kinds[k].extract_fails, write_fails |-> kinds[k].write_fails]]

Batches == { Named(kinds) : kinds \in SeqUpTo(ReportKinds, MaxBatch) }

P1Base == <<"P", "1", "_">> \o NoSerial

\* the output directory before the batch: empty, or with an artifact of part P1
EarlierBatchArtifacts == { {}, { P1Base \o XlsxSuffix } }

InitBatch ==
    /\ pc = "idle"
    /\ pdf_files \in Batches
    /\ file_no = 0
    /\ successful_pdfs = <<>>
    /\ failed_pdfs = {}
    /\ workers = <<>>
    /\ output_dir \in EarlierBatchArtifacts
    /\ pdf_filename = <<>>
    /\ words = <<>>
    /\ extract_fails = FALSE
    /\ write_fails = FALSE
    /\ reconstructed_lines = <<>>
    /\ data_row_indices = <<>>
    /\ header_row_idx = 0
    /\ num_header_cols = 0
    /\ column_boundaries = <<>>
    /\ grid_data = <<>>
    /\ top_level_info = NoInfo
    /\ final_data_for_excel = <<>>
    /\ excel_filename_base = <<>>
    /\ excel_path = <<>>
    /\ counter = 0
    /\ returned = "None"

NextBatch ==
    \/ TakeDocument
    \/ ProcessRaises
    \/ ExtractLines
    \/ Identify
    \/ DefineBoundaries
    \/ MapGrid
    \/ TopLevelInfo
    \/ StructureData
    \/ ChooseName
    \/ CheckExists
    \/ SaveToExcel
    \/ StageRaises
    \/ RecordResult

SpecBatch == InitBatch /\ [][NextBatch]_vars

\* the k-th name the collision loop tries for a base: <base>.xlsx, <base>_1.xlsx, ...
CandidatePath(base, k) ==
    IF k = 0 THEN base \o XlsxSuffix ELSE base \o <<"_">> \o IntToStr(k) \o XlsxSuffix

\* C11: collision-safe naming, sequential case.  When the write is about to
\* happen the chosen path is <base>.xlsx if that does not exist and else
\* <base>_k.xlsx for the smallest k >= 1 that does not exist; no step removes
\* an artifact or writes to a path that exists; and every document that
\* succeeds adds one artifact to the directory.
C11_SequentialNaming ==
    /\ [](pc = "save" =>
            \E k \in 0..Cardinality(output_dir) :
                /\ excel_path = CandidatePath(excel_filename_base, k)
                /\ excel_path \notin output_dir
                /\ \A j \in 0..(k - 1) : CandidatePath(excel_filename_base, j) \in output_dir)
    /\ [][/\ output_dir \subseteq output_dir'
          /\ output_dir' # output_dir =>
                (excel_path \notin output_dir /\ output_dir' = output_dir \cup {excel_path})
          /\ (returned' = "True" /\ returned # "True") =>
                Cardinality(output_dir') = Cardinality(output_dir) + 1]_vars

\* three documents of part P1 after one another into an empty directory:
\* P1_NoSerial.xlsx, P1_NoSerial_1.xlsx and P1_NoSerial_2.xlsx coexist
C11_Witness ==
    /\ pc = "idle"
    /\ Len(successful_pdfs) = 3
    /\ output_dir = { CandidatePath(P1Base, 0), CandidatePath(P1Base, 1), CandidatePath(P1Base, 2) }

\* the for loop of lines 431-450 is over
BatchDone == pc = "idle" /\ file_no = Len(pdf_files)

PcValues ==
    {"idle", "extract", "identify", "boundaries", "grid", "info", "structure", "name",
     "exists", "save", "done"}

\* main moves: while the batch is unfinished, control goes on to another
\* place, or around the collision loop with the next counter
RunsOn ==
    /\ ~BatchDone
    /\ pc' \in PcValues
    /\ counter' \in 0..(MaxBatch + 2)

\* SpecBatchLive: main is one sequential thread that nothing suspends, so an
\* unfinished batch eventually takes its next step
SpecBatchLive == InitBatch /\ [][NextBatch]_vars /\ WF_<<pc, counter>>(RunsOn)

SucceededNames == { successful_pdfs[i] : i \in 1..Len(successful_pdfs) }

FailedNames == { e[1] : e \in failed_pdfs }

\* C12: batch isolation.  Whatever fails in whichever documents, the batch
\* reaches its end; there every input document is in exactly one of
\* successful_pdfs (once) and failed_pdfs (with one non-empty reason), and
\* nothing else is; a document is filed under successful_pdfs only when
\* process_pdf_file returned True, which it does only on writing its artifact.
C12_BatchIsolation ==
    /\ <>BatchDone
    /\ [](BatchDone =>
            /\ SucceededNames \cup FailedNames = { pdf_files[k].name : k \in 1..Len(pdf_files) }
            /\ SucceededNames \cap FailedNames = {}
            /\ Len(successful_pdfs) = Cardinality(SucceededNames)
            /\ Cardinality(failed_pdfs) = Cardinality(FailedNames)
            /\ \A e \in failed_pdfs : e[2] # "")
    /\ [][/\ successful_pdfs' # successful_pdfs =>
                (returned = "True" /\ successful_pdfs' = Append(successful_pdfs, pdf_filename))
          /\ (returned' = "True" /\ returned # "True") =>
                (excel_path \notin output_dir /\ excel_path \in output_dir')]_vars

\* a batch of three whose first document failed, whose second raised outside
\* the handler of process_pdf_file, and whose third was still processed and
\* succeeded
C12_Witness ==
    /\ BatchDone
    /\ Len(pdf_files) = 3
    /\ <<FileName(1), ReturnedFalse>> \in failed_pdfs
    /\ <<FileName(2), TopLevelError>> \in failed_pdfs
    /\ successful_pdfs = <<FileName(3)>>
    /\ output_dir # {}

(***************************************************************************)
(* SpecInfo: extract_top_level_info_from_grid on every grid of up to       *)
(* MaxInfoRows rows, each a row with a part label, a row with a serial     *)
(* label, a row of plain text or a blank row, for a document whose file    *)
(* name has a usable stem and for one whose stem sanitizes to nothing.     *)
(***************************************************************************)
MaxInfoRows == 6

InfoRows ==
    { << <<"{ling}", "{jian}", "{colon}">>, <<"P", "1">> >>,
      << <<"{xu}", "{hao}", ":", "S", "2">>, <<>> >>,
      << <<"a", "b">>, <<>> >>,
      << <<>>, <<>> >> }

InfoGrids == { g \in SeqUpTo(InfoRows, MaxInfoRows) : g # <<>> }

UnderscorePdfName == <<"_", ".", "p", "d", "f">>

InitInfo ==
    /\ pc = "info"
    /\ pdf_filename \in {DefaultPdfName, UnderscorePdfName}
    /\ grid_data \in InfoGrids
    /\ words = <<>>
    /\ extract_fails = FALSE
    /\ reconstructed_lines = <<>>
    /\ data_row_indices = <<>>
    /\ header_row_idx = 0
    /\ num_header_cols = 2
    /\ column_boundaries = Columns(2)
    /\ final_data_for_excel = <<>>
    /\ NothingNamed

NextInfo == TopLevelInfo

SpecInfo == InitInfo /\ [][NextInfo]_vars

InfoDone == pc = "structure"

\* the rows the scan is said to look at: indices 0 to 4
FirstFiveRows == SubSeq(grid_data, 1, Min2(5, Len(grid_data)))

NoPartLabel == \A r \in 1..Len(FirstFiveRows) : Captured(RowText(FirstFiveRows[r]), PartLabels) = <<>>

NoSerialLabel == \A r \in 1..Len(FirstFiveRows) : Captured(RowText(FirstFiveRows[r]), SerialLabels) = <<>>

\* C13 as claimed: when none of the first 5 grid rows matches the part
\* pattern the part_name is "UnknownPart", when none matches the serial
\* pattern the serial_number is "NoSerial"; neither field is ever empty, and
\* labels only in row index 5 or later are ignored.
C13_PlaceholderDefaults ==
    InfoDone =>
        /\ NoPartLabel => top_level_info.part_name = UnknownPart
        /\ NoSerialLabel => top_level_info.serial_number = NoSerial
        /\ top_level_info.part_name # <<>>
        /\ top_level_info.serial_number # <<>>
        /\ top_level_info = extract_top_level_info_from_grid(FirstFiveRows, pdf_filename)

\* C13 as amended: without a part label in the first 5 rows the part_name is
\* the sanitized stem of the document's file name ("r" for r.pdf), and
\* "UnknownPart" only when nothing of the stem survives sanitization; the
\* rest as claimed.
C13_StemDefault ==
    InfoDone =>
        /\ NoPartLabel =>
              /\ pdf_filename = DefaultPdfName => top_level_info.part_name = <<"r">>
              /\ pdf_filename = UnderscorePdfName => top_level_info.part_name = UnknownPart
        /\ ~NoPartLabel => top_level_info.part_name = <<"P", "1">>
        /\ NoSerialLabel => top_level_info.serial_number = NoSerial
        /\ ~NoSerialLabel => top_level_info.serial_number = <<"S", "2">>
        /\ top_level_info.part_name # <<>>
        /\ top_level_info.serial_number # <<>>
        /\ top_level_info = extract_top_level_info_from_grid(FirstFiveRows, pdf_filename)

\* document r.pdf, six rows, the part and the serial label only in the sixth:
\* part_name "r", serial_number "NoSerial"
C13_Witness ==
    /\ InfoDone
    /\ Len(grid_data) = 6
    /\ NoPartLabel
    /\ NoSerialLabel
    /\ Captured(RowText(grid_data[6]), SerialLabels) # <<>>
    /\ pdf_filename = DefaultPdfName
    /\ top_level_info.part_name = <<"r">>
    /\ top_level_info.serial_number = NoSerial

(***************************************************************************)
(* SpecIdentify: identify_data_rows_and_header_ref on documents made of    *)
(* a run of one-word filler lines followed by up to MaxTailLines lines,    *)
(* each one of LineKinds.  The filler runs put the lines that vary at the  *)
(* start of the document, or around the end of the header window.          *)
(***************************************************************************)
MaxTailLines == 3

\* the texts of a line's words
LineKinds ==
    { << <<"X">> >>,
      << <<"b">>, <<"a","b">> >>,
      << <<"X">>, <<"a","b">>, <<"c","d">> >>,
      << <<"a","b">>, <<"c","d">>, <<"e","f">> >>,
      << <<"a","b">>, <<"c","d">>, <<"1">>, <<"2">> >>,
      << <<"1">>, <<"2">>, <<"3">> >>,
      << <<"a","b">>, <<"1">> >>,
      << <<"A","X">>, <<"1">> >>,
      [j \in 1..(HEADER_MAX_WORDS + 1) |-> <<"a","b">>],
      << <<"a","b">>, <<"c","d">>, <<"e","f">>, <<"g","h">> >> }

FillerKind == << <<"q","q">> >>

\* how many filler lines precede the lines that vary
FillerRuns ==
    { 0, HEADER_ROW_CANDIDATE_LINES - 2, HEADER_ROW_CANDIDATE_LINES - 1,
      HEADER_ROW_CANDIDATE_LINES }

\* line k (from 1) of a document, its words 10 wide and 20 apart
KindWords(kind, k) ==
    [j \in 1..Len(kind) |->
        [text |-> kind[j], x0 |-> 20 * j, x1 |-> 20 * j + 10, top |-> 10 * k]]

KindLines(kinds) == [k \in 1..Len(kinds) |-> KindWords(kinds[k], k)]

IdentifyDocuments ==
    { KindLines([k \in 1..n |-> FillerKind] \o tail) :
          n \in FillerRuns, tail \in SeqUpTo(LineKinds, MaxTailLines) } \ { <<>> }

InitIdentify ==
    /\ pc = "identify"
    /\ pdf_filename = DefaultPdfName
    /\ reconstructed_lines \in IdentifyDocuments
    /\ words = Flatten(reconstructed_lines)
    /\ extract_fails = FALSE
    /\ data_row_indices = <<>>
    /\ header_row_idx = 0
    /\ num_header_cols = 0
    /\ column_boundaries = <<>>
    /\ grid_data = <<>>
    /\ final_data_for_excel = <<>>
    /\ NothingNamed

NextIdentify == Identify

SpecIdentify == InitIdentify /\ [][NextIdentify]_vars

IdentifyDone == pc # "identify"

\* is line i (from 0) in the data-row set?
InDataRows(i) == \E k \in 1..Len(data_row_indices) : data_row_indices[k] = i

\* the axis-label codes of the claim: M, X, Y, Z, L, AX, PT or one letter
\* A-Z, trimmed and without regard to case
StartsWithAxisCode(line_words) ==
    LET t == Upper(Strip(line_words[1].text))
    IN \/ t \in { <<"M">>, <<"X">>, <<"Y">>, <<"Z">>, <<"L">>, <<"A","X">>, <<"P","T">> }
       \/ Len(t) = 1 /\ t[1] \in Range(UpperLetters)

\* C14 as claimed: every line whose first token's text is an axis code is a
\* data row, whatever its other tokens are and however many tokens it has.
C14_AxisRuleAnyLength ==
    IdentifyDone =>
        \A i \in 0..(Len(reconstructed_lines) - 1) :
            StartsWithAxisCode(reconstructed_lines[i + 1]) => InDataRows(i)

\* C14 as amended: every line of at least DATA_ROW_MIN_COLUMNS (2) tokens
\* whose first token's text is an axis code is a data row, whatever its other
\* tokens are; a line of fewer tokens is never a data row.
C14_AxisRule ==
    IdentifyDone =>
        \A i \in 0..(Len(reconstructed_lines) - 1) :
            LET line == reconstructed_lines[i + 1]
            IN /\ (StartsWithAxisCode(line) /\ Len(line) >= DATA_ROW_MIN_COLUMNS)
                     => InDataRows(i)
               /\ Len(line) < DATA_ROW_MIN_COLUMNS => ~InDataRows(i)

\* "b ab" is a data row, the one-word line "X" after it is not
C14_Witness ==
    /\ IdentifyDone
    /\ Len(reconstructed_lines) = 2
    /\ Len(reconstructed_lines[1]) = 2
    /\ reconstructed_lines[1][1].text = <<"b">>
    /\ ~is_numeric(reconstructed_lines[1][2].text)
    /\ Len(reconstructed_lines[2]) = 1
    /\ reconstructed_lines[2][1].text = <<"X">>
    /\ data_row_indices = <<0>>

\* the top of the token a line was opened with: the first one of the line in
\* the (top, x0)-sorted stream, which has the line's smallest top
AnchorTop(line) == CHOOSE t \in { w.top : w \in Range(line) } : \A w \in Range(line) : t <= w.top

\* C15: line banding is anchored on the line's first token of the (top, x0)-
\* sorted stream: every token of an output line lies within LINE_TOLERANCE of
\* the line's smallest top, every token of a later line (so the first token of
\* the next line) is more than LINE_TOLERANCE below that top, and each
\* output line is sorted by x0.
C15_AnchoredBanding ==
    LinesDone =>
        /\ \A l \in 1..Len(reconstructed_lines) :
              LET line == reconstructed_lines[l]
              IN /\ \A w \in Range(line) : w.top - AnchorTop(line) <= LINE_TOLERANCE
                 /\ \A j \in 1..(Len(line) - 1) : line[j].x0 <= line[j + 1].x0
        /\ \A l \in 1..(Len(reconstructed_lines) - 1) :
              /\ AnchorTop(reconstructed_lines[l + 1]) - AnchorTop(reconstructed_lines[l])
                    > LINE_TOLERANCE
              /\ \A w \in Range(reconstructed_lines[l + 1]) :
                    w.top - AnchorTop(reconstructed_lines[l]) > LINE_TOLERANCE

\* tops 0, 2 and 4, each within tolerance of the one before: 0 and 2 share a
\* line, 4 does not join it; the line of 0 and 2 is in x0 order although its
\* tokens arrived right to left
C15_Witness ==
    /\ LinesDone
    /\ Len(reconstructed_lines) = 2
    /\ Len(reconstructed_lines[1]) = 2
    /\ reconstructed_lines[1][1].top = 2
    /\ reconstructed_lines[1][2].top = 0
    /\ reconstructed_lines[1][1].x0 < reconstructed_lines[1][2].x0
    /\ reconstructed_lines[2][1].top = 4

\* the header window: the indices (from 0) of the first K lines
HeaderWindow == 0..(Min2(HEADER_ROW_CANDIDATE_LINES, Len(reconstructed_lines)) - 1)

NonNumericTokens(line) == Cardinality({ j \in 1..Len(line) : ~is_numeric(line[j].text) })

\* the candidates of the claim: token count in [3, 15], at least half of the
\* tokens non-numeric
ClaimedCandidates ==
    { i \in HeaderWindow :
        LET line == reconstructed_lines[i + 1]
        IN /\ Len(line) >= 3
           /\ Len(line) <= 15
           /\ 2 * NonNumericTokens(line) >= Len(line) }

\* the score of the claim: the non-numeric token count, plus the token count
\* for the line just before the first data row
ClaimedScore(i) ==
    LET line == reconstructed_lines[i + 1]
    IN NonNumericTokens(line)
       + (IF data_row_indices # <<>> /\ i + 1 = data_row_indices[1] THEN Len(line) ELSE 0)

\* C16: header selection: when there are candidates among the first K = 15
\* lines, the header is the candidate of maximal score, the one of lowest
\* index among those of maximal score; a line at index >= K is never the
\* header.
C16_HeaderSelection ==
    IdentifyDone =>
        /\ header_row_idx < HEADER_ROW_CANDIDATE_LINES
        /\ ClaimedCandidates # {} =>
              /\ header_row_idx \in ClaimedCandidates
              /\ \A j \in ClaimedCandidates :
                    /\ ClaimedScore(j) <= ClaimedScore(header_row_idx)
                    /\ ClaimedScore(j) = ClaimedScore(header_row_idx) => header_row_idx <= j

\* a candidate of four words, one of three words and a data row: the bonus
\* lifts the three-word line (3 + 3) over the four-word line (4)
C16_Witness ==
    /\ IdentifyDone
    /\ Len(reconstructed_lines) = 3
    /\ ClaimedCandidates = {0, 1}
    /\ NonNumericTokens(reconstructed_lines[1]) = 4
    /\ NonNumericTokens(reconstructed_lines[2]) = 3
    /\ data_row_indices = <<2>>
    /\ header_row_idx = 1

\* the lines of the window with at least 3 tokens
LongEnoughLines == { i \in HeaderWindow : Len(reconstructed_lines[i + 1]) >= 3 }

\* C17: the header is always determined for a non-empty document: the header
\* index is a line index below min(K, number of lines): the best candidate,
\* else the first line within K of at least 3 tokens, else line 0; the header
\* column count is that line's token count, at least 1; and process_pdf_file
\* does not take its exit for an undetermined header.
C17_HeaderDetermined ==
    IdentifyDone =>
        /\ header_row_idx \in HeaderWindow
        /\ num_header_cols = Len(reconstructed_lines[header_row_idx + 1])
        /\ num_header_cols >= 1
        /\ ClaimedCandidates # {} => header_row_idx \in ClaimedCandidates
        /\ (ClaimedCandidates = {} /\ LongEnoughLines # {}) =>
              /\ header_row_idx \in LongEnoughLines
              /\ \A j \in LongEnoughLines : header_row_idx <= j
        /\ (ClaimedCandidates = {} /\ LongEnoughLines = {}) => header_row_idx = 0
        /\ pc = "boundaries"
        /\ returned = "None"

\* no candidate, and the first line of three tokens, all numeric, is the
\* second line
C17_Witness ==
    /\ IdentifyDone
    /\ Len(reconstructed_lines) = 2
    /\ ClaimedCandidates = {}
    /\ LongEnoughLines = {1}
    /\ header_row_idx = 1
    /\ num_header_cols = 3

\* the data-row test of spec section 4.2 on one line
PassesDataRowTest(line) ==
    /\ Len(line) >= DATA_ROW_MIN_COLUMNS
    /\ \/ StartsWithAxisCode(line)
       \/ /\ Len(line) >= 3
          /\ \E j \in 2..Len(line) : is_numeric(line[j].text)
          /\ 2 * Cardinality({ j \in 2..Len(line) : is_numeric(line[j].text) })
                >= Len(line) - 1

\* C18 as claimed: row roles are mutually exclusive: the line selected as
\* the header is never in the data-row set.
C18_HeaderNotData == IdentifyDone => ~InDataRows(header_row_idx)

\* C18 as amended: the header selection does not look at the data-row set
\* except for the bonus, so the roles overlap: the header line is in the
\* data-row set exactly when it passes the data-row test itself.
C18_HeaderDataIndependent ==
    IdentifyDone =>
        (InDataRows(header_row_idx)
            <=> PassesDataRowTest(reconstructed_lines[header_row_idx + 1]))

\* the one-line document "X ab cd": the line is the header and a data row
C18_Witness ==
    /\ IdentifyDone
    /\ Len(reconstructed_lines) = 1
    /\ reconstructed_lines[1][1].text = <<"X">>
    /\ ClaimedCandidates = {0}
    /\ header_row_idx = 0
    /\ data_row_indices = <<0>>

(***************************************************************************)
(* SpecStarts: define_adaptive_column_boundaries on a header line and one  *)
(* or two data rows of up to MaxStartCols tokens each, the x0 values at,   *)
(* next to and beyond both ends of [MIN_X, MAX_X], so that inferred starts *)
(* coincide, lie half a unit apart, lie below MIN_X or beyond MAX_X.       *)
(***************************************************************************)
MaxStartCols == 3

XPoolS == {0, MIN_X_COORD, MIN_X_COORD + 1, MAX_X_COORD - 1, MAX_X_COORD, MAX_X_COORD + 1}

\* a line in x0 order
StartLines ==
    { [k \in 1..Len(xs) |-> BoundaryToken(xs[k])] :
        xs \in { ys \in SeqUpTo(XPoolS, MaxStartCols) :
                    ys # <<>> /\ \A k \in 1..(Len(ys) - 1) : ys[k] <= ys[k + 1] } }

InitStarts ==
    /\ pc = "boundaries"
    /\ pdf_filename = DefaultPdfName
    /\ words = <<>>
    /\ extract_fails = FALSE
    /\ reconstructed_lines \in [1..2 -> StartLines]
    /\ data_row_indices \in { <<>>, <<0>>, <<1>>, <<0, 1>> }
    /\ header_row_idx = 0
    /\ num_header_cols \in 1..(MaxStartCols + 1)
    /\ column_boundaries = <<>>
    /\ grid_data = <<>>
    /\ final_data_for_excel = <<>>
    /\ NothingNamed

NextStarts == DefineBoundaries

SpecStarts == InitStarts /\ [][NextStarts]_vars

\* C19: no degenerate columns: every interval returned by
\* define_adaptive_column_boundaries has start < end, whether the inferred
\* starts coincide, lie closer together than 1 unit, or lie below MIN_X.
C19_NoDegenerateColumns ==
    BoundariesDone =>
        /\ column_boundaries # <<>>
        /\ \A i \in 1..Len(column_boundaries) :
              column_boundaries[i][1] < column_boundaries[i][2]

\* three inferred starts, the first two coinciding below MIN_X: their
\* midpoint is left of the cursor, and the first column is widened to 10
\* units from MIN_X
C19_Witness ==
    /\ BoundariesDone
    /\ Len(InferredStarts) = 3
    /\ InferredStarts[1] < MinX
    /\ InferredStarts[2] = InferredStarts[1]
    /\ Len(column_boundaries) = 3
    /\ column_boundaries[1] = <<MinX, MinX + 10 * Scale>>

\* what the word and column c (from 1) have in common, times the word's
\* width: the numerator of the overlap ratio
SharedWidth(word, c) ==
    Max2(0, Min2(word.x1 * Scale, column_boundaries[c][2])
            - Max2(word.x0 * Scale, column_boundaries[c][1]))

\* the column of the claim: of maximal overlap ratio, the leftmost on ties;
\* 0 when the word overlaps no column
ClaimedColumn(word) ==
    LET cols == { c \in 1..Len(column_boundaries) : SharedWidth(word, c) > 0 }
    IN IF cols = {} THEN 0
       ELSE CHOOSE c \in cols :
                \A d \in cols :
                    \/ SharedWidth(word, d) < SharedWidth(word, c)
                    \/ SharedWidth(word, d) = SharedWidth(word, c) /\ c <= d

\* the non-blank texts of the line's words that belong to column c, in the
\* order of the line, joined by single spaces
ClaimedCell(line, c) ==
    LET Belongs(w) == Strip(w.text) # <<>> /\ ClaimedColumn(w) = c
        mine == SelectSeq(line, Belongs)
    IN JoinSpace([k \in 1..Len(mine) |-> Strip(mine[k].text)])

\* C20: grid assignment: every cell holds exactly the non-blank texts of the
\* line's tokens whose column of maximal overlap ratio (leftmost on ties) it
\* is, in ascending x0 order and separated by single spaces; so a token that
\* overlaps some boundary is in exactly one cell, and one that overlaps none
\* is in no cell.
C20_GridAssignment ==
    GridDone =>
        \A l \in 1..Len(grid_data) :
            /\ \A j \in 1..(Len(reconstructed_lines[l]) - 1) :
                  reconstructed_lines[l][j].x0 <= reconstructed_lines[l][j + 1].x0
            /\ \A c \in 1..Len(grid_data[l]) :
                  grid_data[l][c] = ClaimedCell(reconstructed_lines[l], c)

\* a line with a word shared evenly by columns 1 and 2, which goes to column
\* 1, and a word that touches column 2 but lies mostly in column 3, which
\* goes to column 3; on another line a word beyond MAX_X goes nowhere
C20_Witness ==
    /\ GridDone
    /\ Len(column_boundaries) = 3
    /\ \E l \in 1..Len(grid_data) :
          /\ Len(reconstructed_lines[l]) = 2
          /\ SharedWidth(reconstructed_lines[l][1], 1) = SharedWidth(reconstructed_lines[l][1], 2)
          /\ SharedWidth(reconstructed_lines[l][1], 1) > 0
          /\ SharedWidth(reconstructed_lines[l][2], 2) > 0
          /\ grid_data[l] = << <<"g","h">>, <<>>, <<"i","j">> >>
    /\ \E l \in 1..Len(grid_data) :
          \E w \in Range(reconstructed_lines[l]) :
              /\ Strip(w.text) # <<>>
              /\ ClaimedColumn(w) = 0

(***************************************************************************)
(* C21: records and grid rows                                              *)
(***************************************************************************)
RowIndices == 0..(Len(grid_data) - 1)

ClassifiedData(i) == \E k \in 1..Len(data_row_indices) : data_row_indices[k] = i

\* the first cell of the row matches the feature/dimension marker pattern
FirstCellIsMarker(i) ==
    /\ Len(grid_data[i + 1]) >= 1
    /\ Len(grid_data[i + 1][1]) >= 3
    /\ Upper(SubSeq(grid_data[i + 1][1], 1, 3)) = <<"D", "I", "M">>

HasText(i) == \E c \in 1..Len(grid_data[i + 1]) : grid_data[i + 1][c] # <<>>

\* the k-th smallest member of a set of row indices
NthRow(S, k) == CHOOSE i \in S : Cardinality({ j \in S : j < i }) = k - 1

\* record k is the record of row i: it carries sequence number k and the
\* row's cells in the nominal and upper tolerance fields
RecordOfRow(k, i) ==
    LET rec == final_data_for_excel[k]
        row == grid_data[i + 1]
        c == Len(column_boundaries)
    IN /\ rec[1] = k
       /\ rec[4] = CellOrEmpty(row, 1, c)
       /\ rec[5] = CellOrEmpty(row, 2, c)

RecordsMatchRows(S) ==
    /\ Len(final_data_for_excel) = Cardinality(S)
    /\ \A k \in 1..Len(final_data_for_excel) : RecordOfRow(k, NthRow(S, k))

\* C21 as claimed: the records correspond one-to-one, in row order, with the
\* grid rows that are classified as data rows and are not marker rows; marker
\* rows and rows not classified as data yield none.
C21_RecordPerDataRow ==
    RecordsDone =>
        RecordsMatchRows({ i \in RowIndices : ClassifiedData(i) /\ ~FirstCellIsMarker(i) })

\* C21 as amended: the records correspond one-to-one, in row order, with the
\* grid rows that are classified as data rows, hold text in at least one cell
\* and are not marker rows; marker rows (even when classified as data), rows
\* whose cells are all empty (even when classified as data) and rows not
\* classified as data yield none.
C21_RecordPerNonEmptyDataRow ==
    RecordsDone =>
        RecordsMatchRows({ i \in RowIndices :
                             ClassifiedData(i) /\ HasText(i) /\ ~FirstCellIsMarker(i) })

\* four rows, all classified as data: a marker row, a row without text and
\* two rows with values, of which only the last two yield records, in order
C21_Witness ==
    /\ RecordsDone
    /\ Len(grid_data) = 4
    /\ data_row_indices = <<0, 1, 2, 3>>
    /\ FirstCellIsMarker(0)
    /\ ~HasText(1)
    /\ Len(final_data_for_excel) = 2
    /\ RecordOfRow(1, 2)
    /\ RecordOfRow(2, 3)
    /\ final_data_for_excel[1][4] # final_data_for_excel[2][4]

(***************************************************************************)
(* SpecSanitize: sanitize_filename_component on the stem of every file     *)
(* name of up to MaxStemLen characters before ".pdf", drawn from a letter, *)
(* the hyphen, the dot, the underscore, a blank and a character no file    *)
(* name component keeps; the grid names no part, so part_name is the       *)
(* sanitized stem (line 272).                                              *)
(***************************************************************************)
MaxStemLen == 3

StemChars == {"a", "-", ".", "_", " ", "#"}

PdfNames == { t \o <<".", "p", "d", "f">> : t \in SeqUpTo(StemChars, MaxStemLen) }

InitSanitize ==
    /\ pc = "info"
    /\ pdf_filename \in PdfNames
    /\ grid_data = << << <<"a", "b">>, <<>> >> >>
    /\ words = <<>>
    /\ extract_fails = FALSE
    /\ reconstructed_lines = <<>>
    /\ data_row_indices = <<>>
    /\ header_row_idx = 0
    /\ num_header_cols = 2
    /\ column_boundaries = Columns(2)
    /\ final_data_for_excel = <<>>
    /\ NothingNamed

NextSanitize == TopLevelInfo

SpecSanitize == InitSanitize /\ [][NextSanitize]_vars

\* the text handed to sanitize_filename_component, and what it returned
SanitizeInput == SplitExtStem(pdf_filename)

SanitizeOutput == top_level_info.part_name

\* every character of the input is blank, an underscore or a character that
\* is replaced by one
FullyRemoved(text) ==
    \A k \in 1..Len(text) : text[k] = "_" \/ ~(IsWordChar(text[k]) \/ text[k] \in {".", "-"})

\* C22: filename sanitization: for every input, the result is non-empty,
\* consists only of word characters, '.' and '-', has no two consecutive
\* underscores and does not begin with '-', '.' or '_'; blank or
\* fully-removed input yields the supplied default.
C22_SanitizedComponent ==
    pc = "structure" =>
        /\ SanitizeOutput # <<>>
        /\ \A k \in 1..Len(SanitizeOutput) :
              IsWordChar(SanitizeOutput[k]) \/ SanitizeOutput[k] \in {".", "-"}
        /\ \A k \in 1..(Len(SanitizeOutput) - 1) :
              ~(SanitizeOutput[k] = "_" /\ SanitizeOutput[k + 1] = "_")
        /\ SanitizeOutput[1] \notin {"-", ".", "_"}
        /\ FullyRemoved(SanitizeInput) => SanitizeOutput = UnknownPart

(***************************************************************************)
(* SpecWorkers: NumWorkers concurrent calls of process_pdf_file that have  *)
(* reached line 393, on one output directory.  Each call has its own       *)
(* frame; a step is one test of line 393, one test of the while condition  *)
(* of line 404, or the write of line 409, and the steps of different calls *)
(* interleave in any order.                                                *)
(***************************************************************************)
NumWorkers == 2

Workers == 1..NumWorkers

\* the parts the documents of the workers can be of
WorkerParts == { <<"P", "1">>, <<"Q", "2">> }

\* a frame at line 393: the part is known, the records are extracted or
\* there are none
WorkerFrames ==
    { [pc |-> "name",
       top_level_info |-> [part_name |-> part, serial_number |-> NoSerial],
       has_records |-> has,
       excel_filename_base |-> <<>>,
       excel_path |-> <<>>,
       counter |-> 0,
       returned |-> "None"] : part \in WorkerParts, has \in BOOLEAN }

\* the artifacts of part P1 an earlier batch can have left
EarlierWorkerArtifacts == SUBSET { CandidatePath(P1Base, 0), CandidatePath(P1Base, 1) }

InitWorkers ==
    /\ workers \in [Workers -> WorkerFrames]
    /\ output_dir \in EarlierWorkerArtifacts
    /\ pc = "idle"
    /\ pdf_filename = <<>>
    /\ words = <<>>
    /\ extract_fails = FALSE
    /\ write_fails = FALSE
    /\ reconstructed_lines = <<>>
    /\ data_row_indices = <<>>
    /\ header_row_idx = 0
    /\ num_header_cols = 0
    /\ column_boundaries = <<>>
    /\ grid_data = <<>>
    /\ top_level_info = NoInfo
    /\ final_data_for_excel = <<>>
    /\ excel_filename_base = <<>>
    /\ excel_path = <<>>
    /\ counter = 0
    /\ returned = "None"
    /\ pdf_files = <<>>
    /\ file_no = 0
    /\ successful_pdfs = <<>>
    /\ failed_pdfs = {}

\* what a step of a worker leaves alone
WorkerFrameOnly ==
    UNCHANGED <<pc, pdf_filename, words, extract_fails, reconstructed_lines,
                data_row_indices, header_row_idx, num_header_cols, column_boundaries,
                grid_data, top_level_info, final_data_for_excel, excel_filename_base,
                excel_path, counter, write_fails, returned,
                pdf_files, file_no, successful_pdfs, failed_pdfs>>

\* lines 393-403 and 412-414 in the frame of worker w
WorkerChooseName(w) ==
    /\ workers[w].pc = "name"
    /\ IF workers[w].has_records
       THEN LET base == sanitize_filename_component(
                            workers[w].top_level_info.part_name, UnknownPart)
                        \o <<"_">>
                        \o sanitize_filename_component(
                            workers[w].top_level_info.serial_number, NoSerial)
            IN workers' = [workers EXCEPT ![w].excel_filename_base = base,
                                          ![w].excel_path = base \o XlsxSuffix,
                                          ![w].counter = 1,
                                          ![w].pc = "exists"]
       ELSE workers' = [workers EXCEPT ![w].pc = "done", ![w].returned = "False"]
    /\ output_dir' = output_dir
    /\ WorkerFrameOnly

\* an if in the place of the while of line 404: the suffixed name is taken
\* without a test of its own
WorkerTestsOnce(w) ==
    /\ workers[w].pc = "exists"
    /\ IF PathExists(workers[w].excel_path, output_dir)
       THEN workers' = [workers EXCEPT
                           ![w].excel_path = workers[w].excel_filename_base \o <<"_">>
                                             \o IntToStr(workers[w].counter) \o XlsxSuffix,
                           ![w].counter = workers[w].counter + 1,
                           ![w].pc = "save"]
       ELSE workers' = [workers EXCEPT ![w].pc = "save"]
    /\ output_dir' = output_dir
    /\ WorkerFrameOnly

\* lines 404-407 in the frame of worker w: one test of the while condition
\* against the directory as it is at that moment
WorkerCheckExists(w) ==
    /\ workers[w].pc = "exists"
    /\ IF PathExists(workers[w].excel_path, output_dir)
       THEN workers' = [workers EXCEPT
                           ![w].excel_path = workers[w].excel_filename_base \o <<"_">>
                                             \o IntToStr(workers[w].counter) \o XlsxSuffix,
                           ![w].counter = workers[w].counter + 1]
       ELSE workers' = [workers EXCEPT ![w].pc = "save"]
    /\ output_dir' = output_dir
    /\ WorkerFrameOnly

\* lines 409-411 with save_to_excel, lines 354-356, in the frame of worker w:
\* to_excel creates the file or replaces the one that is there
WorkerSave(w) ==
    /\ workers[w].pc = "save"
    /\ output_dir' = output_dir \cup {workers[w].excel_path}
    /\ workers' = [workers EXCEPT ![w].pc = "done", ![w].returned = "True"]
    /\ WorkerFrameOnly

NextWorkers ==
    \/ \E w \in Workers : WorkerChooseName(w)
    \/ \E w \in Workers : WorkerCheckExists(w)
    \/ \E w \in Workers : WorkerSave(w)

SpecWorkers == InitWorkers /\ [][NextWorkers]_vars

\* worker w has written its artifact
Wrote(w) == workers[w].pc = "done" /\ workers[w].returned = "True"

\* C23: collision-safe naming under concurrency.  When two workers run
\* process_pdf_file concurrently on documents with identical inferred
\* identifiers, in no interleaving do both write to the same output path:
\* two workers that have written have written to different paths, so neither
\* artifact has replaced the other, and no worker is about to write to a
\* path that exists.
C23_AtomicReservation ==
    /\ \A a \in DOMAIN workers : \A b \in DOMAIN workers :
          (a # b /\ Wrote(a) /\ Wrote(b)
             /\ workers[a].excel_filename_base = workers[b].excel_filename_base)
          => workers[a].excel_path # workers[b].excel_path
    /\ \A a \in DOMAIN workers :
          workers[a].pc = "save" => workers[a].excel_path \notin output_dir

\* C23 as amended: the naming is best effort under concurrency.  The
\* existence check and the write are separate steps: a worker leaves the
\* loop only on a path that does not exist at that moment, and a path that
\* exists when the worker is about to write was written since by a
\* concurrent worker; only such a worker's artifact is ever replaced.
C23_BestEffortNaming ==
    /\ [](\A w \in DOMAIN workers :
            (workers[w].pc = "save" /\ workers[w].excel_path \in output_dir) =>
                \E a \in DOMAIN workers :
                    a # w /\ Wrote(a) /\ workers[a].excel_path = workers[w].excel_path)
    /\ [][\A w \in DOMAIN workers :
            (w \in DOMAIN workers' /\ workers[w].pc = "exists" /\ workers'[w].pc = "save") =>
                workers[w].excel_path \notin output_dir]_vars

\* the race: with P1_NoSerial.xlsx left by an earlier batch, worker 1 has
\* written P1_NoSerial_1.xlsx and worker 2, which tested that path before,
\* is about to write to it
C23_Witness ==
    /\ CandidatePath(P1Base, 0) \in output_dir
    /\ Wrote(1)
    /\ workers[1].excel_path = CandidatePath(P1Base, 1)
    /\ workers[2].pc = "save"
    /\ workers[2].excel_path = CandidatePath(P1Base, 1)

====
